---- MODULE Spec2Model ----
(***************************************************************************)
(* Model of scotow/ovr: the PDF menu parser (src/src/week.rs), the date    *)
(* resolver (src/src/day.rs) and the catalogue (src/src/catalogue.rs).     *)
(*                                                                         *)
(* A text is a sequence of one-character strings, so that trimming,        *)
(* lower-casing, splitting and number parsing are computed character by    *)
(* character as the Rust code does.                                        *)
(***************************************************************************)
EXTENDS Integers, Sequences, FiniteSets, TLC

VARIABLES
    doc,        \* the document given to parse_pdf: page size and positioned divs
    now,        \* OffsetDateTime::now_utc().date() seen by Day::new
    pc,         \* position inside parse_pdf
    divs,       \* week.rs `divs`: filtered, sorted divs not yet merged
    words,      \* week.rs `words`: the DishBuilder list
    columns,    \* week.rs `columns`
    result,     \* the value parse_pdf / parse_json returned
    catalogue,  \* Catalogue.days
    updates,    \* the CatalogueUpdate returned by the last Catalogue::insert
    json,       \* the rows given to parse_json
    lock,       \* main.rs AppState.catalogue: who holds the RwLock
    reqs        \* the start-up loop of main (0) and the requests being served

vars ==
    <<doc, now, pc, divs, words, columns, result, catalogue, updates, json, lock, reqs>>

(***************************************************************************)
(* Characters and strings                                                  *)
(***************************************************************************)
Range(s) == {s[i] : i \in 1..Len(s)}

UpperChars ==
    <<"A","B","C","D","E","F","G","H","I","J","K","L","M","N","O","P","Q","R",
      "S","T","U","V","W","X","Y","Z","É","Û">>

LowerChars ==
    <<"a","b","c","d","e","f","g","h","i","j","k","l","m","n","o","p","q","r",
      "s","t","u","v","w","x","y","z","é","û">>

DigitChars == <<"0","1","2","3","4","5","6","7","8","9">>

\* char::is_whitespace for the characters a div text can hold
is_whitespace(c) == c \in {" ", "\t"}

\* char::is_lowercase
is_lowercase(c) == c \in Range(LowerChars)

\* char::is_alphabetic
is_alphabetic(c) == c \in Range(LowerChars) \cup Range(UpperChars)

\* char::to_lowercase
char_to_lowercase(c) ==
    IF c \in Range(UpperChars)
    THEN LowerChars[CHOOSE i \in 1..Len(UpperChars) : UpperChars[i] = c]
    ELSE c

\* str::to_lowercase
to_lowercase(s) == [i \in 1..Len(s) |-> char_to_lowercase(s[i])]

\* str::trim_start
RECURSIVE trim_start(_)
trim_start(s) ==
    IF s # <<>> /\ is_whitespace(Head(s)) THEN trim_start(Tail(s)) ELSE s

\* str::trim_end
RECURSIVE trim_end(_)
trim_end(s) ==
    IF s # <<>> /\ is_whitespace(s[Len(s)])
    THEN trim_end(SubSeq(s, 1, Len(s) - 1))
    ELSE s

\* str::trim
trim(s) == trim_end(trim_start(s))

\* str::trim_end_matches(' ')
RECURSIVE trim_end_matches_space(_)
trim_end_matches_space(s) ==
    IF s # <<>> /\ s[Len(s)] = " "
    THEN trim_end_matches_space(SubSeq(s, 1, Len(s) - 1))
    ELSE s

\* str::ends_with(' ')
ends_with_space(s) == s # <<>> /\ s[Len(s)] = " "

\* str::ends_with("  ")
ends_with_two_spaces(s) ==
    Len(s) >= 2 /\ s[Len(s)] = " " /\ s[Len(s) - 1] = " "

\* str::starts_with(' ')
starts_with_space(s) == s # <<>> /\ s[1] = " "

\* the position of the first `sep` in s, 0 when there is none
RECURSIVE find_char_from(_, _, _)
find_char_from(s, sep, i) ==
    IF i > Len(s) THEN 0
    ELSE IF s[i] = sep THEN i
    ELSE find_char_from(s, sep, i + 1)

\* str::splitn(n, sep): at most n pieces, the last one holding the remainder
RECURSIVE splitn(_, _, _)
splitn(n, s, sep) ==
    LET p == find_char_from(s, sep, 1) IN
    IF n <= 1 \/ p = 0 THEN <<s>>
    ELSE <<SubSeq(s, 1, p - 1)>> \o splitn(n - 1, SubSeq(s, p + 1, Len(s)), sep)

DigitValue(c) == (CHOOSE i \in 1..Len(DigitChars) : DigitChars[i] = c) - 1

RECURSIVE DigitsValue(_, _)
DigitsValue(s, acc) ==
    IF s = <<>> THEN acc ELSE DigitsValue(Tail(s), acc * 10 + DigitValue(Head(s)))

AllDigits(s) == s # <<>> /\ \A i \in 1..Len(s) : s[i] \in Range(DigitChars)

NoParse == -100000

\* str::parse::<u8>: an optional '+', then digits, at most 255; NoParse on Err
parse_u8(s) ==
    LET body == IF s # <<>> /\ Head(s) = "+" THEN Tail(s) ELSE s IN
    IF AllDigits(body) /\ DigitsValue(body, 0) <= 255
    THEN DigitsValue(body, 0)
    ELSE NoParse

\* str::parse::<i16>: an optional sign, then digits, in -32768..32767
parse_i16(s) ==
    LET neg  == s # <<>> /\ Head(s) = "-"
        body == IF s # <<>> /\ Head(s) \in {"+", "-"} THEN Tail(s) ELSE s
        v    == IF neg THEN 0 - DigitsValue(body, 0) ELSE DigitsValue(body, 0)
    IN  IF AllDigits(body) /\ v >= -32768 /\ v <= 32767 THEN v ELSE NoParse

(***************************************************************************)
(* Calendar (time::Date)                                                   *)
(***************************************************************************)
is_leap_year(y) == y % 4 = 0 /\ (y % 100 # 0 \/ y % 400 = 0)

days_in_year_month(y, m) ==
    IF m = 2 THEN (IF is_leap_year(y) THEN 29 ELSE 28)
    ELSE IF m \in {4, 6, 9, 11} THEN 30
    ELSE 31

\* Date::from_calendar_date(...).is_ok()
ValidDate(y, m, d) ==
    /\ y >= -9999 /\ y <= 9999
    /\ m >= 1 /\ m <= 12
    /\ d >= 1 /\ d <= days_in_year_month(y, m)

MkDate(y, m, d) == [year |-> y, month |-> m, day |-> d]

\* days since 1970-01-01 (proleptic Gregorian)
DayNumber(date) ==
    LET y   == IF date.month <= 2 THEN date.year - 1 ELSE date.year
        era == y \div 400
        yoe == y - era * 400
        mp  == (date.month + 9) % 12
        doy == (153 * mp + 2) \div 5 + date.day - 1
        doe == yoe * 365 + yoe \div 4 - yoe \div 100 + doy
    IN  era * 146097 + doe - 719468

WeekdayNames ==
    <<"Monday", "Tuesday", "Wednesday", "Thursday", "Friday", "Saturday", "Sunday">>

\* Date::weekday
weekday(date) == WeekdayNames[((DayNumber(date) + 3) % 7) + 1]

Abs(n) == IF n < 0 THEN 0 - n ELSE n

(***************************************************************************)
(* day.rs                                                                  *)
(***************************************************************************)
NoWeekday == "None"
NoMonth == 0

\* day.rs parse_fr_weekday_str: the Weekday, NoWeekday for None
parse_fr_weekday_str(s) ==
    LET l == to_lowercase(s) IN
    IF l = <<"l","u","n","d","i">> THEN "Monday"
    ELSE IF l = <<"m","a","r","d","i">> THEN "Tuesday"
    ELSE IF l = <<"m","e","r","c","r","e","d","i">> THEN "Wednesday"
    ELSE IF l = <<"j","e","u","d","i">> THEN "Thursday"
    ELSE IF l = <<"v","e","n","d","r","e","d","i">> THEN "Friday"
    ELSE IF l = <<"s","a","m","e","d","i">> THEN "Saturday"
    ELSE IF l = <<"d","i","m","a","n","c","h","e">> THEN "Sunday"
    ELSE NoWeekday

\* day.rs parse_fr_month_str: the month number, NoMonth for None
parse_fr_month_str(s) ==
    LET l == to_lowercase(s) IN
    IF l = <<"j","a","n","v","i","e","r">> THEN 1
    ELSE IF l = <<"f","é","v","r","i","e","r">> THEN 2
    ELSE IF l = <<"f","e","v","r","i","e","r">> THEN 2
    ELSE IF l = <<"m","a","r","s">> THEN 3
    ELSE IF l = <<"a","v","r","i","l">> THEN 4
    ELSE IF l = <<"m","a","i">> THEN 5
    ELSE IF l = <<"j","u","i","n">> THEN 6
    ELSE IF l = <<"j","u","i","l","l","e","t">> THEN 7
    ELSE IF l = <<"a","o","û","t">> THEN 8
    ELSE IF l = <<"a","o","u","t">> THEN 8
    ELSE IF l = <<"s","e","p","t","e","m","b","r","e">> THEN 9
    ELSE IF l = <<"o","c","t","o","b","r","e">> THEN 10
    ELSE IF l = <<"n","o","v","e","m","b","r","e">> THEN 11
    ELSE IF l = <<"d","é","c","e","m","b","r","e">> THEN 12
    ELSE IF l = <<"d","e","c","e","m","b","r","e">> THEN 12
    ELSE NoMonth

Ok(date) == [ok |-> TRUE, date |-> date]
NoDate == [ok |-> FALSE, date |-> MkDate(0, 0, 0)]

\* year_candidates without the weekday check of day.rs 38
year_candidates_any_weekday(wd, day, month, today) ==
    LET years == <<today.year - 1, today.year, today.year + 1>>
        dates == [i \in 1..3 |-> MkDate(years[i], month, day)]
        keep(d) == ValidDate(d.year, d.month, d.day)
    IN  SelectSeq(dates, keep)

\* day.rs 35-39: the candidate years in ascending order, kept when the date
\* exists and falls on the parsed weekday
year_candidates(wd, day, month, today) ==
    LET years == <<today.year - 1, today.year, today.year + 1>>
        dates == [i \in 1..3 |-> MkDate(years[i], month, day)]
        keep(d) == ValidDate(d.year, d.month, d.day) /\ weekday(d) = wd
    IN  SelectSeq(dates, keep)

\* day.rs 40: Iterator::min_by_key on |date - now.date()|, the first of the
\* minimal elements; NoDate when the iterator is empty
min_by_key_distance(dates, today) ==
    LET dist(d) == Abs(DayNumber(d) - DayNumber(today)) IN
    IF dates = <<>> THEN NoDate
    ELSE Ok(dates[CHOOSE i \in 1..Len(dates) :
                /\ \A j \in 1..Len(dates) : dist(dates[i]) <= dist(dates[j])
                /\ \A j \in 1..(i - 1) : dist(dates[j]) > dist(dates[i])])

\* day.rs 27 with split(' ') for splitn(3, ' '): what follows the third piece
\* is ignored
resolve_worded_ignoring_rest(header, today) ==
    LET parts == splitn(Len(header) + 1, header, " ") IN
    IF Len(parts) < 3 THEN NoDate
    ELSE LET wd    == parse_fr_weekday_str(parts[1])
             day   == parse_u8(parts[2])
             month == parse_fr_month_str(parts[3])
         IN  IF wd = NoWeekday \/ day = NoParse \/ month = NoMonth THEN NoDate
             ELSE min_by_key_distance(year_candidates(wd, day, month, today), today)

\* day.rs 26-41: "weekday day month", the year inferred around now
resolve_worded(header, today) ==
    LET parts == splitn(3, header, " ") IN
    IF Len(parts) # 3 THEN NoDate
    ELSE LET wd    == parse_fr_weekday_str(parts[1])
             day   == parse_u8(parts[2])
             month == parse_fr_month_str(parts[3])
         IN  IF wd = NoWeekday \/ day = NoParse \/ month = NoMonth THEN NoDate
             ELSE min_by_key_distance(year_candidates(wd, day, month, today), today)

\* day.rs 43-49: "year-month-day"; pieces that do not parse as i16 are dropped
\* by flatten(), and month and day are cast with `as u8`
resolve_numeric(header) ==
    LET parts  == splitn(3, header, "-")
        parsed == [i \in 1..Len(parts) |-> parse_i16(parts[i])]
        nums   == SelectSeq(parsed, LAMBDA n : n # NoParse)
    IN  IF Len(nums) # 3 THEN NoDate
        ELSE LET year  == nums[1]
                 month == nums[2] % 256
                 day   == nums[3] % 256
             IN  IF ValidDate(year, month, day)
                 THEN Ok(MkDate(year, month, day))
                 ELSE NoDate

\* day.rs 25: the header holds an alphabetic character
has_alphabetic(s) == \E i \in 1..Len(s) : is_alphabetic(s[i])

\* the three outcomes of Day::new
SomeDay(date, dishes) ==
    [tag |-> "Some", day |-> [date |-> date, dishes |-> dishes]]
NoneDay == [tag |-> "None", day |-> [date |-> MkDate(0, 0, 0), dishes |-> <<>>]]
ErrDay == [tag |-> "Err", day |-> [date |-> MkDate(0, 0, 0), dishes |-> <<>>]]

\* Day::new without the early return of day.rs 21 for a header alone
Day_new_without_length_check(fields, today) ==
    IF Len(fields) = 0 THEN ErrDay
    ELSE LET r == IF has_alphabetic(fields[1])
                  THEN resolve_worded(fields[1], today)
                  ELSE resolve_numeric(fields[1])
         IN  IF r.ok THEN SomeDay(r.date, Tail(fields)) ELSE ErrDay

\* Day::new with `fields.to_vec()` for `fields[1..].to_vec()` at day.rs 54
Day_new_keeping_header(fields, today) ==
    IF Len(fields) = 0 THEN ErrDay
    ELSE IF Len(fields) = 1 THEN NoneDay
    ELSE LET r == IF has_alphabetic(fields[1])
                  THEN resolve_worded(fields[1], today)
                  ELSE resolve_numeric(fields[1])
         IN  IF r.ok THEN SomeDay(r.date, fields) ELSE ErrDay

\* day.rs Day::new
Day_new(fields, today) ==
    IF Len(fields) = 0 THEN ErrDay
    ELSE IF Len(fields) = 1 THEN NoneDay
    ELSE LET r == IF has_alphabetic(fields[1])
                  THEN resolve_worded(fields[1], today)
                  ELSE resolve_numeric(fields[1])
         IN  IF r.ok THEN SomeDay(r.date, Tail(fields)) ELSE ErrDay

\* what parse_pdf and parse_json return: Ok(days) or Err(err)
OkDays(days) == [ok |-> TRUE, err |-> "", days |-> days]
Err(e) == [ok |-> FALSE, err |-> e, days |-> <<>>]

\* the collection with a column that fails dropped like a None
RECURSIVE collect_days_skipping_errors(_, _, _)
collect_days_skipping_errors(fieldsList, today, acc) ==
    IF fieldsList = <<>> THEN OkDays(acc)
    ELSE LET d == Day_new(Head(fieldsList), today) IN
         IF d.tag # "Some" THEN collect_days_skipping_errors(Tail(fieldsList), today, acc)
         ELSE collect_days_skipping_errors(Tail(fieldsList), today, Append(acc, d.day))

\* filter_map(|f| Day::new(f).transpose()).collect::<Result<Vec<_>, _>>():
\* None is skipped, the first Err ends the collection
RECURSIVE collect_days(_, _, _)
collect_days(fieldsList, today, acc) ==
    IF fieldsList = <<>> THEN OkDays(acc)
    ELSE LET d == Day_new(Head(fieldsList), today) IN
         IF d.tag = "Err" THEN Err("InvalidPdf")
         ELSE IF d.tag = "None" THEN collect_days(Tail(fieldsList), today, acc)
         ELSE collect_days(Tail(fieldsList), today, Append(acc, d.day))

\* week.rs parse_json, given the deserialized Vec<Vec<String>>
parse_json(input, today) ==
    IF ~input.valid THEN Err("InvalidJson")
    ELSE collect_days(input.rows, today, <<>>)

(***************************************************************************)
(* week.rs: constants and DishBuilder                                      *)
(***************************************************************************)
MAIN_CONTENT_AREA == [start |-> 120, end |-> 525]

CATEGORIES_AREAS ==
    << [width |-> 792, height |-> 612,
        areas |-> << [start |-> 136, end |-> 166], [start |-> 196, end |-> 226],
                     [start |-> 296, end |-> 326], [start |-> 376, end |-> 406],
                     [start |-> 416, end |-> 446] >>],
       [width |-> 841, height |-> 595,
        areas |-> << [start |-> 139, end |-> 169], [start |-> 197, end |-> 227],
                     [start |-> 293, end |-> 323], [start |-> 370, end |-> 400],
                     [start |-> 408, end |-> 438] >>] >>

EXPECTED_CHAR_WIDTH == 4
COLUMN_ALLOWED_DRIFT == 30
MULTILINE_DISH_MAX_DISTANCE == 15

\* Range<u32>::contains
range_contains(r, n) == r.start <= n /\ n < r.end

\* A u32 is held as the integer congruent to it modulo 2^32 that lies in
\* -2^31 .. 2^31 - 1: the values below 2^31 as themselves, 2^32 - n as -n.
\* Sums and differences of such integers then wrap at 2^32 as the u32
\* arithmetic of a build without overflow checks does; the order, the halving
\* and the distance of two u32 are the unsigned ones below.
u32_lt(a, b) == IF (a < 0) = (b < 0) THEN a < b ELSE b < 0

u32_le(a, b) == ~u32_lt(b, a)

\* u32 / 2
u32_half(a) == IF a >= 0 THEN a \div 2 ELSE ((a \div 2) + 1073741824) + 1073741824

\* u32::abs_diff
abs_diff(a, b) == IF u32_lt(a, b) THEN b - a ELSE a - b

\* categories_area without the lookup by page size: always the first entry
categories_area_first_entry(width, height) == CATEGORIES_AREAS[1].areas

\* week.rs DocumentDimensions::categories_area
categories_area(width, height) ==
    LET hits == SelectSeq(CATEGORIES_AREAS,
                          LAMBDA e : e.width = width /\ e.height = height)
    IN  IF hits # <<>> THEN hits[1].areas ELSE CATEGORIES_AREAS[1].areas

\* week.rs 59-72: the div survives the filter_map
keep_div(div, categories) ==
    /\ ~div.red
    /\ range_contains(MAIN_CONTENT_AREA, div.top)
    /\ ~\E i \in 1..Len(categories) : range_contains(categories[i], div.top)

\* the sort key of week.rs 75, compared lexicographically
key_le(a, b) == a.top < b.top \/ (a.top = b.top /\ u32_le(a.left, b.left))

\* week.rs 75: slice::sort_by_key(|d| (d.top, d.left)), a stable sort
RECURSIVE insert_sorted(_, _)
insert_sorted(sorted, d) ==
    IF sorted = <<>> THEN <<d>>
    ELSE IF key_le(Head(sorted), d)
         THEN <<Head(sorted)>> \o insert_sorted(Tail(sorted), d)
         ELSE <<d>> \o sorted

\* week.rs 75 left out: the divs in the order of the document
sort_by_key_left_out(s) == s

RECURSIVE sort_by_key(_)
sort_by_key(s) ==
    IF s = <<>> THEN <<>>
    ELSE insert_sorted(sort_by_key(SubSeq(s, 1, Len(s) - 1)), s[Len(s)])

\* week.rs DishBuilder::center
center(w) == w.start + u32_half(w.end - w.start)

\* week.rs DishBuilder::trim
DishBuilder_trim(w) == [w EXCEPT !.text = trim(w.text)]

\* absorb_text taking one leading space off the text, not all its leading
\* whitespace
absorb_text_one_space(selfText, text) ==
    IF ends_with_space(selfText)
    THEN selfText \o (IF starts_with_space(text) THEN Tail(text) ELSE text)
    ELSE IF ends_with_two_spaces(text)
         THEN selfText \o trim_end_matches_space(text)
         ELSE selfText \o text

\* week.rs DishBuilder::absorb_text: the text of self afterwards
absorb_text(selfText, text) ==
    IF ends_with_space(selfText)
    THEN selfText \o trim_start(text)
    ELSE IF ends_with_two_spaces(text)
         THEN selfText \o trim_end_matches_space(text)
         ELSE selfText \o text

\* week.rs 222-232: DishBuilder::from(Div)
DishBuilder_from(div) ==
    LET text == trim_start(div.text) IN
    [top |-> div.top, start |-> div.left,
     end |-> div.left + Len(text) * EXPECTED_CHAR_WIDTH, text |-> text]

\* DishBuilder += Div with the end recomputed from the start and the whole text
add_assign_div_end_from_start(w, rhs) ==
    [w EXCEPT !.text = absorb_text(w.text, rhs.text),
              !.end = w.start + Len(absorb_text(w.text, rhs.text)) * EXPECTED_CHAR_WIDTH]

\* week.rs 234-239: DishBuilder += Div
add_assign_div(w, rhs) ==
    [w EXCEPT !.text = absorb_text(w.text, rhs.text),
              !.end = rhs.left + Len(rhs.text) * EXPECTED_CHAR_WIDTH]

\* week.rs 242-251: DishBuilder += DishBuilder (multi-line dishes)
add_assign_word(w, rhs) ==
    LET spaced == IF ~ends_with_space(w.text) /\ ~starts_with_space(rhs.text)
                  THEN Append(w.text, " ")
                  ELSE w.text
    IN  [w EXCEPT !.text = absorb_text(spaced, rhs.text),
                  !.start = IF u32_lt(w.start, rhs.start) THEN w.start ELSE rhs.start,
                  !.end = IF u32_lt(rhs.end, w.end) THEN w.end ELSE rhs.end]

(***************************************************************************)
(* week.rs: the stages of parse_pdf                                        *)
(***************************************************************************)
SetLast(s, x) == [s EXCEPT ![Len(s)] = x]

\* week.rs 81 with a signed difference for abs_diff
same_word_signed(last, div) == last.top = div.top /\ div.left - last.end < 12

\* week.rs 81: the div continues the last word
same_word(last, div) == last.top = div.top /\ u32_lt(abs_diff(last.end, div.left), 12)

\* week.rs 79-89: one iteration of the merge loop
merge_div(ws, div) ==
    IF ws = <<>> THEN <<DishBuilder_from(div)>>
    ELSE LET last == ws[Len(ws)] IN
         IF same_word(last, div)
         THEN SetLast(ws, add_assign_div(last, div))
         ELSE Append(SetLast(ws, DishBuilder_trim(last)), DishBuilder_from(div))

\* week.rs 81-85, 228, 238: the sum that gives the word its end exceeds
\* u32::MAX, which panics in a build with overflow checks
end_overflows(ws, div) ==
    LET text == IF ws # <<>> /\ same_word(ws[Len(ws)], div)
                THEN div.text
                ELSE trim_start(div.text)
    IN  div.left < 0 /\ div.left + Len(text) * EXPECTED_CHAR_WIDTH >= 0

\* week.rs 91-93: trim the last word
trim_last(ws) ==
    IF ws = <<>> THEN ws ELSE SetLast(ws, DishBuilder_trim(ws[Len(ws)]))

\* week.rs 98-99: the lower-cased texts of the words at one top
line_dishes(ws, t) ==
    LET line == SelectSeq(ws, LAMBDA w : w.top = t) IN
    [i \in 1..Len(line) |-> to_lowercase(line[i].text)]

\* Itertools::counts: how often text occurs among dishes
count_of(dishes, text) == Cardinality({i \in 1..Len(dishes) : dishes[i] = text})

\* week.rs 106 without `.max(2)`
repeat_threshold_without_floor(n) == IF n >= 1 THEN n - 1 ELSE 0

\* week.rs 106: n >= dishes.len().saturating_sub(1).max(2)
repeat_threshold(n) ==
    LET sub == IF n >= 1 THEN n - 1 ELSE 0 IN
    IF sub > 2 THEN sub ELSE 2

\* week.rs 102-107: some text repeats across the line
is_repeating_line(dishes) ==
    \E i \in 1..Len(dishes) :
        count_of(dishes, dishes[i]) >= repeat_threshold(Len(dishes))

\* week.rs 96-109: the tops of the repeating lines
lines_to_clear(ws) ==
    {t \in {ws[i].top : i \in 1..Len(ws)} : is_repeating_line(line_dishes(ws, t))}

\* week.rs 110: words.retain(...)
remove_repeating_lines(ws) ==
    LET clear == lines_to_clear(ws) IN
    SelectSeq(ws, LAMBDA w : w.top \notin clear)

\* week.rs 116-117 with the first member of the column for any member
column_accepts_first_member(column, word) ==
    u32_lt(abs_diff(center(column[1]), center(word)), COLUMN_ALLOWED_DRIFT)

\* week.rs 116-117: some member of the column is close to the word
column_accepts(column, word) ==
    \E i \in 1..Len(column) :
        u32_lt(abs_diff(center(column[i]), center(word)), COLUMN_ALLOWED_DRIFT)

\* week.rs 115-118: the index of the first accepting column, 0 for None
find_column(cols, word) ==
    IF \E i \in 1..Len(cols) : column_accepts(cols[i], word)
    THEN CHOOSE i \in 1..Len(cols) :
            /\ column_accepts(cols[i], word)
            /\ \A j \in 1..(i - 1) : ~column_accepts(cols[j], word)
    ELSE 0

\* week.rs 121 without the lower-case test of week.rs 122
is_multiline_any_case(last, word) ==
    word.top - last.top <= MULTILINE_DISH_MAX_DISTANCE

\* week.rs 121-122: the word continues the last dish of the column
is_multiline(last, word) ==
    /\ word.top - last.top <= MULTILINE_DISH_MAX_DISTANCE
    /\ word.text # <<>> /\ is_lowercase(word.text[1])

\* week.rs 115-130: one iteration of the column loop
place_word(cols, word) ==
    LET c == find_column(cols, word) IN
    IF c = 0 THEN Append(cols, <<word>>)
    ELSE LET column == cols[c]
             last   == column[Len(column)]
         IN  IF is_multiline(last, word)
             THEN [cols EXCEPT ![c] = SetLast(column, add_assign_word(last, word))]
             ELSE [cols EXCEPT ![c] = Append(column, word)]

\* week.rs 136 with unique_by(|d| d.text.clone())
RECURSIVE unique_by_text(_, _)
unique_by_text(column, acc) ==
    IF column = <<>> THEN acc
    ELSE IF \E i \in 1..Len(acc) : acc[i].text = Head(column).text
         THEN unique_by_text(Tail(column), acc)
         ELSE unique_by_text(Tail(column), Append(acc, Head(column)))

\* week.rs 134-137: Itertools::unique_by(|d| d.text.to_lowercase())
RECURSIVE unique_by_lowercase(_, _)
unique_by_lowercase(column, acc) ==
    IF column = <<>> THEN acc
    ELSE IF \E i \in 1..Len(acc) :
                to_lowercase(acc[i].text) = to_lowercase(Head(column).text)
         THEN unique_by_lowercase(Tail(column), acc)
         ELSE unique_by_lowercase(Tail(column), Append(acc, Head(column)))

\* week.rs 133-138
remove_duplicates(cols) ==
    [i \in 1..Len(cols) |-> unique_by_lowercase(cols[i], <<>>)]

\* week.rs 140 with `c.len() >= 1`
discard_no_days(cols) == SelectSeq(cols, LAMBDA c : Len(c) >= 1)

\* week.rs 140: columns.retain(|c| c.len() >= 2)
discard_empty_days(cols) == SelectSeq(cols, LAMBDA c : Len(c) >= 2)

\* week.rs 148: the fields handed to Day::new for one column
column_fields(column) == [i \in 1..Len(column) |-> column[i].text]

\* week.rs 146-149
assemble_days(cols, today) ==
    collect_days([i \in 1..Len(cols) |-> column_fields(cols[i])], today, <<>>)

\* week.rs 54-75: the divs kept by the filter, sorted by (top, left)
filter_and_sort(d) ==
    LET categories == categories_area(d.width, d.height) IN
    sort_by_key(SelectSeq(d.frags, LAMBDA div : keep_div(div, categories)))

RECURSIVE merge_all(_, _)
merge_all(ws, ds) ==
    IF ds = <<>> THEN trim_last(ws) ELSE merge_all(merge_div(ws, Head(ds)), Tail(ds))

RECURSIVE place_all(_, _)
place_all(cols, ws) ==
    IF ws = <<>> THEN cols ELSE place_all(place_word(cols, Head(ws)), Tail(ws))

\* week.rs 77-138: the columns before the empty days are discarded
build_columns(d) ==
    remove_duplicates(
        place_all(<<>>, remove_repeating_lines(merge_all(<<>>, filter_and_sort(d)))))

\* week.rs 139-149: from the columns to the value returned
finish_columns(cols, today) ==
    LET kept == discard_empty_days(cols) IN
    IF kept = <<>> THEN Err("InvalidPdf") ELSE assemble_days(kept, today)

\* week.rs parse_pdf as a whole
parse_pdf(d, today) ==
    IF ~d.valid THEN Err("InvalidPdf")
    ELSE finish_columns(build_columns(d), today)

(***************************************************************************)
(* catalogue.rs                                                            *)
(***************************************************************************)
date_lt(a, b) == DayNumber(a) < DayNumber(b)

\* Vec<Date>::sort
RECURSIVE insert_date(_, _)
insert_date(sorted, d) ==
    IF sorted = <<>> THEN <<d>>
    ELSE IF date_lt(d, Head(sorted)) THEN <<d>> \o sorted
    ELSE <<Head(sorted)>> \o insert_date(Tail(sorted), d)

RECURSIVE sort_dates(_)
sort_dates(s) ==
    IF s = <<>> THEN <<>>
    ELSE insert_date(sort_dates(SubSeq(s, 1, Len(s) - 1)), s[Len(s)])

NoUpdate == [inserted |-> <<>>, replaced |-> <<>>]

\* slice::binary_search_by_key over days[left+1..right], by date: the 0-based
\* index of the day found, or of the place where the date would go
RECURSIVE binary_search(_, _, _, _)
binary_search(days, date, left, right) ==
    IF left >= right THEN [found |-> FALSE, index |-> left]
    ELSE LET mid == left + (right - left) \div 2 IN
         IF date_lt(days[mid + 1].date, date) THEN binary_search(days, date, mid + 1, right)
         ELSE IF days[mid + 1].date = date THEN [found |-> TRUE, index |-> mid]
         ELSE binary_search(days, date, left, mid)

binary_search_by_key(days, date) == binary_search(days, date, 0, Len(days))

\* the loop body of Catalogue::insert with `self.days.push(day)` for the
\* insertion at the position found
insert_day_pushing(st, day) ==
    LET days == st.days
        r    == binary_search_by_key(days, day.date)
    IN  IF r.found
        THEN [days |-> [days EXCEPT ![r.index + 1].dishes = day.dishes],
              inserted |-> st.inserted,
              replaced |-> Append(st.replaced, day.date)]
        ELSE [days |-> Append(days, day),
              inserted |-> Append(st.inserted, day.date),
              replaced |-> st.replaced]

\* catalogue.rs 32-41: one iteration of the loop of Catalogue::insert
insert_day(st, day) ==
    LET days == st.days
        r    == binary_search_by_key(days, day.date)
    IN  IF r.found
        THEN [days |-> [days EXCEPT ![r.index + 1].dishes = day.dishes],
              inserted |-> st.inserted,
              replaced |-> Append(st.replaced, day.date)]
        ELSE [days |-> SubSeq(days, 1, r.index) \o <<day>>
                        \o SubSeq(days, r.index + 1, Len(days)),
              inserted |-> Append(st.inserted, day.date),
              replaced |-> st.replaced]

RECURSIVE insert_days(_, _)
insert_days(st, days) ==
    IF days = <<>> THEN st ELSE insert_days(insert_day(st, Head(days)), Tail(days))

\* catalogue.rs Catalogue::insert: the days afterwards and the update returned
Catalogue_insert(stored, days) ==
    LET st == insert_days([days |-> stored, inserted |-> <<>>, replaced |-> <<>>], days)
    IN  [days |-> st.days,
         updates |-> [inserted |-> sort_dates(st.inserted),
                      replaced |-> sort_dates(st.replaced)]]

\* CatalogueUpdate += without the test of catalogue.rs 174
add_assign_update_keeping_replaced(self, rhs) ==
    [inserted |-> self.inserted \o rhs.inserted,
     replaced |-> self.replaced \o rhs.replaced]

\* catalogue.rs 170-179: CatalogueUpdate += CatalogueUpdate
add_assign_update(self, rhs) ==
    LET inserted == self.inserted \o rhs.inserted IN
    [inserted |-> inserted,
     replaced |-> self.replaced
                  \o SelectSeq(rhs.replaced, LAMBDA d : d \notin Range(inserted))]

(***************************************************************************)
(* catalogue.rs: weeks and week, with the ISO week arithmetic of `time`    *)
(***************************************************************************)
\* the calendar date of a day number (the inverse of DayNumber)
DateOfDayNumber(n) ==
    LET z   == n + 719468
        era == z \div 146097
        doe == z - era * 146097
        yoe == (doe - doe \div 1460 + doe \div 36524 - doe \div 146096) \div 365
        doy == doe - (365 * yoe + yoe \div 4 - yoe \div 100)
        mp  == (5 * doy + 2) \div 153
        d   == doy - (153 * mp + 2) \div 5 + 1
        m   == IF mp < 10 THEN mp + 3 ELSE mp - 9
        y   == yoe + era * 400
    IN  MkDate(IF m <= 2 THEN y + 1 ELSE y, m, d)

\* Date::ordinal: the day of the year, from 1
ordinal(date) == DayNumber(date) - DayNumber(MkDate(date.year, 1, 1)) + 1

\* Weekday::number_from_monday of Date::weekday
number_from_monday(date) == ((DayNumber(date) + 3) % 7) + 1

days_in_year(year) == IF is_leap_year(year) THEN 366 ELSE 365

\* time::util::weeks_in_year: 53 for the years that begin on a Thursday and
\* the leap years that begin on a Wednesday
weeks_in_year(year) ==
    LET jan_1 == number_from_monday(MkDate(year, 1, 1)) IN
    IF jan_1 = 4 \/ (jan_1 = 3 /\ is_leap_year(year)) THEN 53 ELSE 52

\* Date::iso_year_week
iso_year_week(date) ==
    LET week == (ordinal(date) + 10 - number_from_monday(date)) \div 7 IN
    IF week = 0
    THEN [year |-> date.year - 1, week |-> weeks_in_year(date.year - 1)]
    ELSE IF week = 53 /\ weeks_in_year(date.year) = 52
    THEN [year |-> date.year + 1, week |-> 1]
    ELSE [year |-> date.year, week |-> week]

\* Date::iso_week
iso_week(date) == iso_year_week(date).week

\* Date::from_iso_week_date(year, week, weekday): an error for a week the
\* year does not have, else the date, which may fall in the year before or
\* after
from_iso_week_date(year, week, wd) ==
    IF ~(year >= -9999 /\ year <= 9999) \/ ~(week >= 1 /\ week <= weeks_in_year(year))
    THEN [ok |-> FALSE, date |-> MkDate(0, 0, 0)]
    ELSE LET jan_4 == number_from_monday(MkDate(year, 1, 4)) + 3
             ord   == week * 7 + wd - jan_4
         IN  [ok |-> TRUE,
              date |-> DateOfDayNumber(DayNumber(MkDate(year, 1, 1)) + ord - 1)]

\* catalogue.rs 243: the closure of WeeksList::from, before `expect`
week_monday(d) == from_iso_week_date(d.date.year, iso_week(d.date), 1)

\* Itertools::unique: the first occurrence of each element, in order
RECURSIVE unique(_, _)
unique(s, acc) ==
    IF s = <<>> THEN acc
    ELSE unique(Tail(s), IF Head(s) \in Range(acc) THEN acc ELSE Append(acc, Head(s)))

\* catalogue.rs 237-250: WeeksList::from; `expect` panics on the first error
WeeksList_from(days) ==
    LET mondays == [i \in 1..Len(days) |-> week_monday(days[i])] IN
    IF \E i \in 1..Len(days) : ~mondays[i].ok
    THEN [ok |-> FALSE, weeks |-> <<>>]
    ELSE [ok |-> TRUE,
          weeks |-> unique([i \in 1..Len(days) |-> mondays[i].date], <<>>)]

\* catalogue.rs 86-98: Catalogue::week
Catalogue_week(stored, year, week) ==
    LET days == SelectSeq(stored,
                    LAMBDA d : d.date.year = year /\ iso_week(d.date) = week)
    IN  IF days = <<>> THEN [ok |-> FALSE, days |-> <<>>]
        ELSE [ok |-> TRUE, days |-> days]

(***************************************************************************)
(* The documents and clocks the model is run on                            *)
(***************************************************************************)
MaxMergeFrags == 3
MaxRowSize == 5
MaxClusterFrags == 3
MaxItems == 3
MaxCols == 2
MaxPermuted == 4

T_Sal == <<"S","a","l">>
T_ade == <<"a","d","e">>
T_Eau == <<"E","a","u">>
T_eau == <<"e","a","u">>
T_Riz == <<"R","i","z">>
T_riz == <<"r","i","z">>
T_riz_sp == <<"r","i","z"," ">>
T_Pain == <<"P","a","i","n">>
T_Sel == <<"S","e","l">>
T_Menu == <<"M","e","n","u">>
T_Poulet == <<"P","o","u","l","e","t">>
T_basquaise == <<"b","a","s","q","u","a","i","s","e">>
T_Semaine12 == <<"S","e","m","a","i","n","e"," ","1","2">>
T_Date13 == <<"2","0","2","4","-","0","3","-","1","3">>
T_Mardi12 == <<"M","a","r","d","i"," ","1","2"," ","m","a","r","s">>
T_Lundi11 == <<"l","u","n","d","i"," ","1","1"," ","M","a","r","s">>

Frag(t, l, x) == [top |-> t, left |-> l, text |-> x, red |-> FALSE]
RedFrag(t, l, x) == [top |-> t, left |-> l, text |-> x, red |-> TRUE]
Doc(w, h, fr) == [valid |-> TRUE, width |-> w, height |-> h, frags |-> fr]
PageDoc(fr) == Doc(792, 612, fr)
UnreadableDoc == [valid |-> FALSE, width |-> 0, height |-> 0, frags |-> <<>>]

SeqsUpTo(S, n) == UNION {[1..k -> S] : k \in 0..n}

\* tops of the main content area outside the category areas of both page sizes
RowTops == <<170, 230, 250, 270, 290, 330, 350, 450, 470, 490, 510>>
HeaderTop == RowTops[1]
ItemTops == Tail(RowTops)

\* fragments of one or two lines, next to each other, overlapping or apart
MergeFrags ==
    {Frag(130, l, x) : l \in {0, 4, 24}, x \in {T_Sal, T_ade}} \cup {Frag(131, 4, T_Sal)}
MergeDocs == {PageDoc(fr) : fr \in SeqsUpTo(MergeFrags, MaxMergeFrags)}

\* one line of two or three fragments that merge, with spaces and tabs at
\* their boundaries
AbsorbFirsts == {T_Sal, <<"S","a","l"," ">>, <<"S","a","l","\t">>}
AbsorbNexts ==
    {T_ade, <<" ","a","d","e">>, <<" "," ","a","d","e">>, <<"a","d","e"," ">>, <<"a","d","e"," "," ">>, <<"\t","a","d","e">>}
AbsorbDocs ==
    {PageDoc(<<Frag(130, 0, a), Frag(130, 12, b)>>) : a \in AbsorbFirsts, b \in AbsorbNexts}
    \cup {PageDoc(<<Frag(130, 0, a), Frag(130, 12, b), Frag(130, 26, c)>>) :
            a \in AbsorbFirsts, b \in AbsorbNexts, c \in AbsorbNexts}

\* one line of up to MaxRowSize words over a line of two different words
RowTexts == {T_Eau, T_eau, T_Riz}
RowDocs ==
    {PageDoc([i \in 1..Len(xs) |-> Frag(130, 100 * (i - 1), xs[i])]
             \o <<Frag(170, 0, T_Pain), Frag(170, 100, T_Sel)>>) :
        xs \in SeqsUpTo(RowTexts, MaxRowSize)}

\* words at centers 6, 34, 62 and 92 ("Riz") or 8, 36, 64 and 94 ("riz "), on
\* lines 15 and 16 px apart
ClusterFrags ==
    {Frag(t, l, x) : t \in {230, 245, 246}, l \in {0, 28, 56, 86}, x \in {T_Riz, T_riz_sp}}
FragOrder(f) == <<f.top, f.left, IF f.text = T_Riz THEN 0 ELSE 1>>
FragBefore(f, g) ==
    LET a == FragOrder(f)
        b == FragOrder(g)
    IN  \/ a[1] < b[1]
        \/ a[1] = b[1] /\ a[2] < b[2]
        \/ a[1] = b[1] /\ a[2] = b[2] /\ a[3] < b[3]
\* the sequences of up to n fragments in strictly increasing order
RECURSIVE IncreasingSeqs(_)
IncreasingSeqs(n) ==
    IF n = 0 THEN {<<>>}
    ELSE LET shorter == IncreasingSeqs(n - 1) IN
         shorter \cup UNION {{Append(s, f) : f \in {g \in ClusterFrags :
                                    s = <<>> \/ FragBefore(s[Len(s)], g)}} :
                             s \in {t \in shorter : Len(t) = n - 1}}
ClusterDocs == {PageDoc(fr) : fr \in IncreasingSeqs(MaxClusterFrags)}

\* one column: a header and up to MaxItems items that repeat each other
DedupDocs ==
    {PageDoc(<<Frag(HeaderTop, 0, T_Date13)>>
             \o [i \in 1..Len(xs) |-> Frag(ItemTops[i], 0, xs[i])]) :
        xs \in SeqsUpTo(RowTexts, MaxItems)}

\* headers: weekday, day and month in every combination, and malformed ones
WeekdayTexts == {<<"L","u","n","d","i">>, <<"m","a","r","d","i">>, <<"J","e","u","d","i">>}
DayTexts == {<<"1","3">>, <<"2","9">>, <<"3","1">>}
MonthTexts == {<<"m","a","r","s">>, <<"f","é","v","r","i","e","r">>, <<"F","e","v","r","i","e","r">>, <<"a","v","r","i","l">>}
WordedHeaders ==
    {w \o <<" ">> \o d \o <<" ">> \o m :
        w \in WeekdayTexts, d \in DayTexts, m \in MonthTexts}
OddHeaders ==
    { <<"L","u","n","d","i"," ","1","3">>, <<"L","u","n","d","i"," ","1","3"," ","m","a","r","s"," ","2","0","2","4">>, <<"L","u","n","d","y"," ","1","3"," ","m","a","r","s">>, <<"L","u","n","d","i"," ","t","r","e","i","z","e"," ","m","a","r","s">>,
      <<"L","u","n","d","i"," "," ","1","3"," ","m","a","r","s">>, <<"L","u","n","d","i"," ","1","3"," ","b","r","u","m","a","i","r","e">>, <<"2","0","2","4","-","0","3","-","1","3">>, <<"2","0","2","4","-","1","3","-","0","1">>,
      <<"2","0","2","4","-","0","2","-","3","0">>, <<"2","0","2","4","-","2","5","7","-","1","3">>, <<"2","0","2","4","-","0","3">>, <<"2","0","2","4","-","0","3","-","1","3","-","1">>, <<"2","4","-","2","-","2","9">>,
      <<"L","u","n","d","i"," ","1","3"," ","m","a","r","s"," ","2","4">> }
Headers == WordedHeaders \cup OddHeaders
HeaderDocs ==
    {PageDoc(<<Frag(HeaderTop, 0, h), Frag(ItemTops[1], 0, T_Riz)>>) : h \in Headers}

Nows == {MkDate(2024, 3, 10), MkDate(2023, 12, 31), MkDate(2025, 1, 1), MkDate(2022, 6, 15)}
Now0 == MkDate(2024, 3, 10)

\* a grid of up to MaxCols columns 300 px apart: a header each, then the same
\* number of items each, the last one long when `long`
GridHeaders == {T_Date13, T_Mardi12, T_Menu}
Item(c, i) == <<UpperChars[c], LowerChars[i]>>
LongItem(c) == <<UpperChars[c]>> \o [j \in 1..29 |-> "x"]
GridFrags(hs, r, long) ==
    LET n == Len(hs)
        cell(k) ==
            LET row == (k - 1) \div n
                c   == ((k - 1) % n) + 1
            IN  IF row = 0 THEN Frag(HeaderTop, 300 * (c - 1), hs[c])
                ELSE Frag(ItemTops[row], 300 * (c - 1),
                          IF long /\ row = r THEN LongItem(c) ELSE Item(c, row))
    IN  [k \in 1..(n * (r + 1)) |-> cell(k)]
GridDocs ==
    {PageDoc(GridFrags(hs, r, long)) :
        hs \in SeqsUpTo(GridHeaders, MaxCols), r \in 0..MaxItems, long \in BOOLEAN}

\* one fragment at the edges of the content area, of either colour, on known
\* and unknown page sizes, alone or beside a column that parses
EdgeFrags ==
    {[top |-> t, left |-> 300, text |-> T_Sel, red |-> r] :
        t \in {119, 120, 137, 140, 167, 524, 525}, r \in BOOLEAN}
PageSizes == {<<792, 612>>, <<841, 595>>, <<100, 100>>}
FilterDocs ==
    {Doc(p[1], p[2], base \o <<f>>) :
        p \in PageSizes, f \in EdgeFrags,
        base \in {<<>>, <<Frag(HeaderTop, 0, T_Date13), Frag(ItemTops[1], 0, T_Riz)>>}}

\* the examples of the specification
ExampleDocs ==
    { PageDoc(<<Frag(130, 0, T_Sal), Frag(130, 4, T_ade)>>),
      PageDoc(<<Frag(130, 0, T_Semaine12), Frag(130, 100, T_Semaine12),
                Frag(130, 200, T_Menu), Frag(130, 300, T_Semaine12),
                Frag(130, 400, T_Semaine12), Frag(170, 0, T_Pain)>>),
      PageDoc(<<Frag(230, 4, T_Riz), Frag(250, 32, T_Sel), Frag(270, 292, T_Pain)>>),
      PageDoc(<<Frag(170, 0, T_Date13), Frag(230, 0, T_Poulet),
                Frag(240, 0, T_basquaise), Frag(242, 0, T_Riz)>>),
      PageDoc(<<Frag(170, 0, T_Date13), Frag(230, 0, T_Eau), Frag(250, 0, T_eau)>>) }

Cases ==
    {[doc |-> d, now |-> Now0] :
        d \in {UnreadableDoc} \cup MergeDocs \cup RowDocs \cup ClusterDocs
              \cup DedupDocs \cup GridDocs \cup FilterDocs \cup ExampleDocs
              \cup AbsorbDocs}
    \cup {[doc |-> d, now |-> n] : d \in HeaderDocs, n \in Nows}

(***************************************************************************)
(* main.rs: the catalogue behind its RwLock and the requests               *)
(***************************************************************************)
MaxReqs == 2
MaxParts == 2
MaxStartupDocs == 1

\* 0 is the start-up loop of main, the others are HTTP requests
Reqs == 0..MaxReqs

\* tokio::sync::RwLock: the tasks holding the write guard and the read guards
NoLock == [writers |-> {}, readers |-> {}]

\* a request: its handler, its position, the parts it has inserted, its
\* `updates`, the catalogue when it took the lock, its response, the other
\* tasks that touched the catalogue since its last insert, and for the week
\* routes the week asked for and the weeks or days answered
IdleReq ==
    [kind |-> "none", pc |-> "idle", nparts |-> 0, acc |-> NoUpdate,
     before |-> <<>>, outcome |-> "none", others |-> {},
     year |-> 0, week |-> 0, weeks |-> <<>>, days |-> <<>>]
NoReqs == [r \in Reqs |-> IdleReq]

(***************************************************************************)
(* parse_pdf, stage by stage                                               *)
(***************************************************************************)
Pending == [ok |-> FALSE, err |-> "pending", days |-> <<>>]
NoJson == [valid |-> TRUE, rows |-> <<>>]

Init ==
    /\ \E c \in Cases : doc = c.doc /\ now = c.now
    /\ pc = "load"
    /\ divs = <<>>
    /\ words = <<>>
    /\ columns = <<>>
    /\ result = Pending
    /\ catalogue = <<>>
    /\ updates = NoUpdate
    /\ json = NoJson
    /\ lock = NoLock
    /\ reqs = NoReqs

\* week.rs 42-75: load the document, filter and sort its divs
Load ==
    /\ pc = "load"
    /\ IF doc.valid
       THEN /\ divs' = filter_and_sort(doc)
            /\ pc' = "merge"
            /\ UNCHANGED result
       ELSE /\ result' = Err("InvalidPdf")
            /\ pc' = "done"
            /\ UNCHANGED divs
    /\ UNCHANGED <<doc, now, words, columns, catalogue, updates, json>>
    /\ UNCHANGED <<lock, reqs>>

\* week.rs 78-90: one iteration of `for div in divs`; where the end of the
\* word overflows, the build decides between wrapping and a panic
MergeDiv ==
    /\ pc = "merge"
    /\ divs # <<>>
    /\ \/ /\ words' = merge_div(words, Head(divs))
          /\ divs' = Tail(divs)
          /\ UNCHANGED <<pc, result>>
       \/ /\ end_overflows(words, Head(divs))
          /\ result' = Err("Panic")
          /\ pc' = "done"
          /\ UNCHANGED <<words, divs>>
    /\ UNCHANGED <<doc, now, columns, catalogue, updates, json>>
    /\ UNCHANGED <<lock, reqs>>

\* week.rs 91-93
TrimLast ==
    /\ pc = "merge"
    /\ divs = <<>>
    /\ words' = trim_last(words)
    /\ pc' = "lines"
    /\ UNCHANGED <<doc, now, divs, columns, result, catalogue, updates, json>>
    /\ UNCHANGED <<lock, reqs>>

\* week.rs 95-110
RemoveRepeatingLines ==
    /\ pc = "lines"
    /\ words' = remove_repeating_lines(words)
    /\ pc' = "columns"
    /\ UNCHANGED <<doc, now, divs, columns, result, catalogue, updates, json>>
    /\ UNCHANGED <<lock, reqs>>

\* week.rs 114-131: one iteration of `for word in words`
PlaceWord ==
    /\ pc = "columns"
    /\ words # <<>>
    /\ columns' = place_word(columns, Head(words))
    /\ words' = Tail(words)
    /\ UNCHANGED <<doc, now, pc, divs, result, catalogue, updates, json>>
    /\ UNCHANGED <<lock, reqs>>

\* week.rs 132-138
RemoveDuplicates ==
    /\ pc = "columns"
    /\ words = <<>>
    /\ columns' = remove_duplicates(columns)
    /\ pc' = "discard"
    /\ UNCHANGED <<doc, now, divs, words, result, catalogue, updates, json>>
    /\ UNCHANGED <<lock, reqs>>

\* week.rs 139-144
DiscardEmptyDays ==
    /\ pc = "discard"
    /\ columns' = discard_empty_days(columns)
    /\ IF columns' = <<>>
       THEN result' = Err("InvalidPdf") /\ pc' = "done"
       ELSE pc' = "days" /\ UNCHANGED result
    /\ UNCHANGED <<doc, now, divs, words, catalogue, updates, json>>
    /\ UNCHANGED <<lock, reqs>>

\* week.rs 146-149
AssembleDays ==
    /\ pc = "days"
    /\ result' = assemble_days(columns, now)
    /\ pc' = "done"
    /\ UNCHANGED <<doc, now, divs, words, columns, catalogue, updates, json>>
    /\ UNCHANGED <<lock, reqs>>

Next ==
    \/ Load
    \/ MergeDiv
    \/ TrimLast
    \/ RemoveRepeatingLines
    \/ PlaceWord
    \/ RemoveDuplicates
    \/ DiscardEmptyDays
    \/ AssembleDays

Spec == Init /\ [][Next]_vars

(***************************************************************************)
(* Properties                                                              *)
(***************************************************************************)
Last(s) == s[Len(s)]
Max(a, b) == IF a > b THEN a ELSE b
Min(a, b) == IF a < b THEN a ELSE b

\* the header text resolves to a date
HeaderResolves(text) ==
    IF has_alphabetic(text)
    THEN resolve_worded(text, now).ok
    ELSE resolve_numeric(text).ok

\* C1: parse_pdf has no partial success. When the days are assembled from the
\* surviving columns, a single column whose header fails date resolution makes
\* the whole parse fail with no Day returned; otherwise the parse returns one
\* Day per surviving column.
C1_NoPartialSuccess ==
    [][pc = "days" =>
        IF \E i \in 1..Len(columns) : ~HeaderResolves(columns[i][1].text)
        THEN ~result'.ok /\ result'.days = <<>>
        ELSE result'.ok /\ Len(result'.days) = Len(columns)]_vars

\* C1 witness: two columns survived, the first header resolves, the second does
\* not, and the parse failed.
C1_Witness ==
    /\ pc = "done"
    /\ Len(columns) = 2
    /\ HeaderResolves(columns[1][1].text)
    /\ ~HeaderResolves(columns[2][1].text)
    /\ ~result.ok

\* every fragment of the document is red or outside the main content area
NoFragmentSurvives ==
    \A i \in 1..Len(doc.frags) :
        doc.frags[i].red \/ doc.frags[i].top < 120 \/ doc.frags[i].top >= 525

\* C2: when no column has two runs or more (in particular when the document
\* has no fragment, or none survives the filter), parse_pdf returns
\* Err(InvalidPdf); it never returns an empty list of days.
C2_NoColumnIsInvalidPdf ==
    [][/\ (pc = "discard" /\ \A i \in 1..Len(columns) : Len(columns[i]) < 2)
            => (pc' = "done" /\ result' = Err("InvalidPdf"))
       /\ pc' = "done"
            => /\ result'.ok => result'.days # <<>>
               /\ (doc.valid /\ NoFragmentSurvives) => result' = Err("InvalidPdf")]_vars

\* C2 witness: a readable document with fragments, all of whose columns were
\* discarded, was rejected.
C2_Witness ==
    /\ pc = "done"
    /\ doc.valid
    /\ doc.frags # <<>>
    /\ ~NoFragmentSurvives
    /\ columns = <<>>
    /\ result = Err("InvalidPdf")

\* the step of the merge loop absorbed the div into the current run
Absorbed == Len(words') = Len(words)

\* C4 as stated: the fragment is absorbed exactly when the current run has the
\* same top and the signed gap fragment.left - run.end is below 12.
C4_SignedGap ==
    [][(pc = "merge" /\ divs # <<>>) =>
        /\ Absorbed <=> /\ words # <<>>
                        /\ Last(words).top = Head(divs).top
                        /\ Head(divs).left - Last(words).end < 12
        /\ ~Absorbed => Len(words') = Len(words) + 1]_vars

\* C4 amended: the fragment is absorbed exactly when the current run has the
\* same top and the distance |fragment.left - run.end| is below 12; otherwise
\* it starts a new run.
C4_AbsoluteGap ==
    [][(pc = "merge" /\ divs # <<>>) =>
        /\ Absorbed <=> /\ words # <<>>
                        /\ Last(words).top = Head(divs).top
                        /\ Head(divs).left - Last(words).end < 12
                        /\ Last(words).end - Head(divs).left < 12
        /\ ~Absorbed => /\ Len(words') = Len(words) + 1
                        /\ Last(words').start = Head(divs).left
                        /\ Last(words').top = Head(divs).top]_vars

\* C4 witness: "Sal" at left 0 and "ade" at left 4 became the one run "Salade".
C4_Witness ==
    /\ pc = "lines"
    /\ doc.frags = <<Frag(130, 0, T_Sal), Frag(130, 4, T_ade)>>
    /\ Len(words) = 1
    /\ words[1].text = T_Sal \o T_ade

\* the words at top t have a lower-cased text that occurs max(row size - 1, 2)
\* times or more among them
RowRepeats(t) ==
    LET row == {i \in 1..Len(words) : words[i].top = t} IN
    \E i \in row :
        Cardinality({j \in row :
            to_lowercase(words[j].text) = to_lowercase(words[i].text)})
        >= Max(Cardinality(row) - 1, 2)

\* C5: the noise remover drops every run of a row in which some lower-cased
\* text occurs at least max(row_size - 1, 2) times, and keeps the runs of all
\* other rows unchanged and in order.
C5_RepeatedRowsRemoved ==
    [][pc = "lines" =>
        words' = SelectSeq(words, LAMBDA w : ~RowRepeats(w.top))]_vars

\* C5 witness: the row where 4 of 5 runs read "Semaine 12" is gone, with its
\* differing run, and the other row is left.
C5_Witness ==
    /\ pc = "columns"
    /\ columns = <<>>
    /\ Len(doc.frags) = 6
    /\ doc.frags[3].text = T_Menu
    /\ Len(words) = 1
    /\ words[1].text = T_Pain

\* the center of a run: start + (end - start) / 2
Centre(r) == r.start + (r.end - r.start) \div 2

\* some member of the column has its center at most d px from the center of w
MemberWithin(column, w, d) ==
    \E i \in 1..Len(column) : Abs(Centre(column[i]) - Centre(w)) <= d

\* the step of the column loop gave the run to column c and left the others
JoinedColumn(c) ==
    /\ Len(columns') = Len(columns)
    /\ columns'[c] # columns[c]
    /\ \A j \in 1..Len(columns) : j # c => columns'[j] = columns[j]

\* the run goes to the first column, in creation order, that has a member at
\* most d px from it, and starts a new column when there is none
ClusteredWithin(d) ==
    LET w == Head(words)
        near == {c \in 1..Len(columns) : MemberWithin(columns[c], w, d)}
    IN  IF near # {}
        THEN JoinedColumn(CHOOSE c \in near : \A k \in near : c <= k)
        ELSE /\ Len(columns') = Len(columns) + 1
             /\ Len(Last(columns')) = 1
             /\ \A j \in 1..Len(columns) : columns'[j] = columns[j]

\* C6 as stated: each run joins the first column holding any member whose
\* center is within 30 px (30 included) of the run's center, else starts a
\* new column.
C6_Within30 ==
    [][(pc = "columns" /\ words # <<>>) => ClusteredWithin(30)]_vars

\* C6 amended: each run joins the first column holding any member whose center
\* is less than 30 px (at most 29) from the run's center, else starts a new
\* column.
C6_Below30 ==
    [][(pc = "columns" /\ words # <<>>) => ClusteredWithin(29)]_vars

\* C6 witness: a column holds three runs of which the first and the last are
\* 30 px apart or more: the last was admitted by the second, not by the first.
C6_Witness ==
    /\ pc = "columns"
    /\ \E c \in 1..Len(columns) :
        /\ Len(columns[c]) = 3
        /\ Abs(Centre(columns[c][1]) - Centre(columns[c][3])) >= 30
        /\ Abs(Centre(columns[c][2]) - Centre(columns[c][3])) < 30

\* C6 witness of the example: the runs at centers 10 and 38 share a column,
\* the run at center 300 has its own.
C6_ExampleWitness ==
    /\ pc = "columns"
    /\ words = <<>>
    /\ Len(columns) = 2
    /\ Len(columns[1]) = 2
    /\ Centre(columns[1][1]) = 10 /\ Centre(columns[1][2]) = 38
    /\ Centre(columns[2][1]) = 300

\* the run continues the last run of the column: at most 15 px below it and
\* starting with a lower-case letter
Continues(last, w) ==
    /\ Abs(w.top - last.top) <= 15
    /\ w.text # <<>>
    /\ w.text[1] \in Range(LowerChars)

\* C7: a run given to a column is merged into the column's last run (texts
\* joined by one space, [start, end] widened to cover both, no new entry)
\* exactly when its top is within 15 px of the last run's top and its text
\* begins with a lower-case letter; otherwise it is appended as a new entry.
C7_MultilineJoin ==
    [][(pc = "columns" /\ words # <<>> /\ Len(columns') = Len(columns)) =>
        LET w    == Head(words)
            c    == CHOOSE k \in 1..Len(columns) : columns'[k] # columns[k]
            last == Last(columns[c])
        IN  IF Continues(last, w)
            THEN /\ Len(columns'[c]) = Len(columns[c])
                 /\ \A k \in 1..(Len(columns[c]) - 1) : columns'[c][k] = columns[c][k]
                 /\ Last(columns'[c]) =
                        [top   |-> last.top,
                         text  |-> last.text \o <<" ">> \o w.text,
                         start |-> Min(last.start, w.start),
                         end   |-> Max(last.end, w.end)]
            ELSE columns'[c] = Append(columns[c], w)]_vars

\* C7 witness: "Poulet" (top 230) and "basquaise" (top 240) are one entry
\* "Poulet basquaise", and "Riz" (top 242) is the entry after it.
C7_Witness ==
    /\ pc = "columns"
    /\ words = <<>>
    /\ Len(columns) = 1
    /\ Len(columns[1]) = 3
    /\ columns[1][2].text = T_Poulet \o <<" ">> \o T_basquaise
    /\ columns[1][2].top = 230
    /\ columns[1][3].text = T_Riz

\* no earlier run of the column has the lower-cased text of run j
FirstOfItsText(column, j) ==
    \A k \in 1..(j - 1) :
        to_lowercase(column[k].text) # to_lowercase(column[j].text)

\* the runs of the column that are the first of their lower-cased text
RECURSIVE FirstsFrom(_, _)
FirstsFrom(column, j) ==
    IF j > Len(column) THEN <<>>
    ELSE (IF FirstOfItsText(column, j) THEN <<column[j]>> ELSE <<>>)
         \o FirstsFrom(column, j + 1)

\* C8: deduplication keeps, in each column, exactly the runs that are the
\* first of their lower-cased text, unchanged and in their order, so that no
\* two runs of a column share a lower-cased text afterwards.
C8_Deduplication ==
    [][(pc = "columns" /\ words = <<>>) =>
        /\ Len(columns') = Len(columns)
        /\ \A c \in 1..Len(columns) :
            /\ columns'[c] = FirstsFrom(columns[c], 1)
            /\ \A i, j \in 1..Len(columns'[c]) :
                i # j => to_lowercase(columns'[c][i].text)
                         # to_lowercase(columns'[c][j].text)]_vars

\* C8 witness: the column "2024-03-13", "Eau", "eau" is left with "Eau" only.
C8_Witness ==
    /\ pc = "discard"
    /\ Len(doc.frags) = 3
    /\ doc.frags[2].text = T_Eau
    /\ doc.frags[3].text = T_eau
    /\ Len(columns) = 1
    /\ Len(columns[1]) = 2
    /\ columns[1][2].text = T_Eau

\* the header is "weekday day month" in words
IsWorded(text) ==
    /\ has_alphabetic(text)
    /\ Len(splitn(3, text, " ")) = 3
    /\ parse_fr_weekday_str(splitn(3, text, " ")[1]) # NoWeekday
    /\ parse_u8(splitn(3, text, " ")[2]) # NoParse
    /\ parse_fr_month_str(splitn(3, text, " ")[3]) # NoMonth

\* the dates of the worded header in the years around now that exist and fall
\* on the weekday of the header
Candidates(text) ==
    LET parts == splitn(3, text, " ")
        wd    == parse_fr_weekday_str(parts[1])
        d     == parse_u8(parts[2])
        m     == parse_fr_month_str(parts[3])
    IN  {date \in {MkDate(y, m, d) : y \in (now.year - 1)..(now.year + 1)} :
            /\ ValidDate(date.year, date.month, date.day)
            /\ weekday(date) = wd}

Distance(date) == Abs(DayNumber(date) - DayNumber(now))

\* C9: a worded header resolves to the date of the given day and month, in the
\* year before, of or after now, that exists, falls on the given weekday and
\* is nearest to now; resolution fails when there is no such date.
C9_WordedDate ==
    (pc = "done" /\ columns # <<>>) =>
        \A c \in 1..Len(columns) :
            IsWorded(columns[c][1].text) =>
                LET cands == Candidates(columns[c][1].text) IN
                /\ cands = {} => ~result.ok
                /\ (cands # {} /\ Len(columns) = 1) => result.ok
                /\ result.ok =>
                    /\ result.days[c].date \in cands
                    /\ \A other \in cands :
                        Distance(result.days[c].date) <= Distance(other)

\* C9 witness: "Lundi 13 mars" read on 2024-03-10 is 2023-03-13, the Monday
\* among the 13th of March of 2023, 2024 and 2025.
C9_Witness ==
    /\ pc = "done"
    /\ now = MkDate(2024, 3, 10)
    /\ Len(columns) = 1
    /\ parse_fr_weekday_str(splitn(3, columns[1][1].text, " ")[1]) = "Monday"
    /\ result.ok
    /\ result.days[1].date = MkDate(2023, 3, 13)

\* C9 witness of the failure: a worded header with no candidate was rejected.
C9_NoCandidateWitness ==
    /\ pc = "done"
    /\ Len(columns) = 1
    /\ IsWorded(columns[1][1].text)
    /\ Candidates(columns[1][1].text) = {}
    /\ ~result.ok

\* the columns of the input: the fragments that share a left coordinate
FragIndices == 1..Len(doc.frags)
InputLefts == {doc.frags[i].left : i \in FragIndices}
InputColumn(l) == {i \in FragIndices : doc.frags[i].left = l}

\* the fragments of a set of indices from top to bottom
RECURSIVE TopToBottom(_)
TopToBottom(idx) ==
    IF idx = {} THEN <<>>
    ELSE LET i == CHOOSE k \in idx : \A j \in idx : doc.frags[k].top <= doc.frags[j].top
         IN  <<doc.frags[i]>> \o TopToBottom(idx \ {i})

\* the lefts of the input columns from left to right
RECURSIVE LeftToRight(_)
LeftToRight(ls) ==
    IF ls = {} THEN <<>>
    ELSE LET l == CHOOSE k \in ls : \A j \in ls : k <= j
         IN  <<l>> \o LeftToRight(ls \ {l})

\* the estimated center of a fragment taken as a run of its own
FragCentre(f) == f.left + 2 * Len(f.text)

\* the input of the round trip: columns set well apart (30 px or more between
\* the estimated end of a fragment and the left of any fragment of a column
\* further right), the headers on one row above the items and resolving to a
\* date, the items capitalised and distinct, nothing red, nothing outside the
\* content area, no text twice on a row, every text trimmed
RoundTripInput ==
    /\ doc.valid
    /\ doc.frags # <<>>
    /\ \A i \in FragIndices :
        LET f == doc.frags[i] IN
        /\ ~f.red
        /\ f.top >= 120 /\ f.top < 525
        /\ ~\E k \in 1..Len(categories_area(doc.width, doc.height)) :
              range_contains(categories_area(doc.width, doc.height)[k], f.top)
        /\ f.text # <<>>
        /\ f.text = trim(f.text)
    /\ \A i, j \in FragIndices :
        LET f == doc.frags[i]
            g == doc.frags[j]
        IN  /\ (i # j /\ f.left = g.left) =>
                 /\ f.top # g.top
                 /\ to_lowercase(f.text) # to_lowercase(g.text)
            /\ (i # j /\ f.top = g.top) => to_lowercase(f.text) # to_lowercase(g.text)
            /\ f.left < g.left => g.left - (f.left + 4 * Len(f.text)) >= 30
    /\ \A l \in InputLefts :
        LET col == TopToBottom(InputColumn(l)) IN
        /\ Len(col) >= 2
        /\ HeaderResolves(col[1].text)
        /\ \A m \in InputLefts : TopToBottom(InputColumn(m))[1].top = col[1].top
        /\ \A k \in 2..Len(col) : col[k].text[1] \in Range(UpperChars)

\* every item has its estimated center less than 30 px from the center of the
\* header or of an item above it in its column
ItemsNearTheirColumn ==
    \A l \in InputLefts :
        LET col == TopToBottom(InputColumn(l)) IN
        \A k \in 2..Len(col) :
            \E j \in 1..(k - 1) : Abs(FragCentre(col[j]) - FragCentre(col[k])) < 30

\* the date the header resolves to
HeaderDate(text) ==
    IF has_alphabetic(text) THEN resolve_worded(text, now).date
    ELSE resolve_numeric(text).date

\* one Day per input column, from left to right, its items the texts below the
\* header from top to bottom
RoundTripOutput ==
    LET lefts == LeftToRight(InputLefts) IN
    /\ result.ok
    /\ Len(result.days) = Len(lefts)
    /\ \A c \in 1..Len(lefts) :
        LET col == TopToBottom(InputColumn(lefts[c])) IN
        /\ result.days[c].date = HeaderDate(col[1].text)
        /\ result.days[c].dishes = [k \in 1..(Len(col) - 1) |-> col[k + 1].text]

\* C10 as stated: N well-separated columns of a parsable header and distinct
\* capitalised items give exactly N days in column order with the items in
\* top-to-bottom order.
C10_RoundTrip ==
    (pc = "done" /\ RoundTripInput) => RoundTripOutput

\* C10 amended: the same, for inputs where every item has its estimated center
\* (left + 2 px per character) less than 30 px from the center of the header or
\* of an item above it in its column.
C10_RoundTripNearItems ==
    (pc = "done" /\ RoundTripInput /\ ItemsNearTheirColumn) => RoundTripOutput

\* C10 witness: a grid of two columns with two items or more each came back
\* as two days.
C10_Witness ==
    /\ pc = "done"
    /\ RoundTripInput
    /\ ItemsNearTheirColumn
    /\ Cardinality(InputLefts) = 2
    /\ Len(doc.frags) >= 6
    /\ Len(result.days) = 2

\* the category-label bands selected for the page: those registered for
\* exactly its width and height, those of the first registered profile when
\* the page size is not registered
RegisteredProfiles ==
    {i \in 1..Len(CATEGORIES_AREAS) :
        CATEGORIES_AREAS[i].width = doc.width /\ CATEGORIES_AREAS[i].height = doc.height}
SelectedBands ==
    IF RegisteredProfiles = {}
    THEN CATEGORIES_AREAS[1].areas
    ELSE CATEGORIES_AREAS[CHOOSE i \in RegisteredProfiles :
                            \A j \in RegisteredProfiles : i <= j].areas
InSomeBand(top) ==
    \E k \in 1..Len(SelectedBands) :
        top >= SelectedBands[k].start /\ top < SelectedBands[k].end

\* the fragment passes the filter
Passes(f) == ~f.red /\ f.top >= 120 /\ f.top < 525 /\ ~InSomeBand(f.top)

\* how many entries of the sequence equal x
Occurrences(s, x) == Cardinality({i \in 1..Len(s) : s[i] = x})

\* C11: a fragment reaches the word merger if and only if it is not red, its
\* top lies in [120, 525) and in none of the category-label bands selected for
\* the page (those of the exact page size, those of the first profile for an
\* unregistered size): the fragments handed to the merger are exactly the
\* passing fragments of the document, each as often as the document has it.
C11_FragmentFilter ==
    [][(pc = "load" /\ doc.valid) =>
        /\ \A i \in 1..Len(doc.frags) :
            LET f == doc.frags[i] IN
            Occurrences(divs', f) = (IF Passes(f) THEN Occurrences(doc.frags, f) ELSE 0)
        /\ \A k \in 1..Len(divs') : Occurrences(doc.frags, divs'[k]) > 0]_vars

\* C11 witness: on a page of unregistered size, a black fragment at top 137,
\* inside a band of the first profile only, was dropped and the two fragments
\* of the column beside it were kept.
C11_Witness ==
    /\ pc = "merge"
    /\ doc.width = 100
    /\ Len(doc.frags) = 3
    /\ doc.frags[3].top = 137
    /\ ~doc.frags[3].red
    /\ Len(divs) = 2

\* C11 witness for a registered size: on the 841 x 595 page the fragment at
\* top 137 is outside the bands of that page and was kept.
C11_SecondProfileWitness ==
    /\ pc = "merge"
    /\ doc.width = 841
    /\ Len(doc.frags) = 3
    /\ doc.frags[3].top = 137
    /\ ~doc.frags[3].red
    /\ Len(divs) = 3

\* C12 as stated: every run the word merger produced has
\* end = start + character_count(text) x 4.
C12_EndFromStart ==
    pc = "lines" =>
        \A i \in 1..Len(words) :
            words[i].end = words[i].start + 4 * Len(words[i].text)

\* C12 amended: the end of a run is derived from the last fragment it took. A
\* run started from a fragment has start = fragment.left and
\* end = start + 4 x the character count of its text at that moment (the
\* fragment's text without leading whitespace); an absorbed fragment sets
\* end = fragment.left + 4 x the character count of the fragment's text and
\* leaves start; the earlier runs and the final trim change no start or end.
C12_EndFromLastFragment ==
    [][pc = "merge" =>
        IF divs # <<>>
        THEN LET f == Head(divs) IN
             /\ Absorbed =>
                 /\ Last(words').end = f.left + 4 * Len(f.text)
                 /\ Last(words').start = Last(words).start
             /\ ~Absorbed =>
                 /\ Last(words').start = f.left
                 /\ Last(words').end = f.left + 4 * Len(trim_start(f.text))
                 /\ Last(words').end = Last(words').start + 4 * Len(Last(words').text)
             /\ \A i \in 1..Len(words) :
                 (i < Len(words) \/ ~Absorbed) =>
                     /\ words'[i].start = words[i].start
                     /\ words'[i].end = words[i].end
        ELSE /\ Len(words') = Len(words)
             /\ \A i \in 1..Len(words) :
                 /\ words'[i].start = words[i].start
                 /\ words'[i].end = words[i].end]_vars

\* C12 witness: the run "Salade" made of "Sal" at left 0 and "ade" at left 4
\* starts at 0 and ends at 4 + 3 x 4 = 16, not at 0 + 6 x 4 = 24.
C12_Witness ==
    /\ pc = "lines"
    /\ Len(words) = 1
    /\ words[1].text = T_Sal \o T_ade
    /\ words[1].start = 0
    /\ words[1].end = 16

\* the document with its fragments in the order p
Orders(n) == {p \in [1..n -> 1..n] : \A i, j \in 1..n : p[i] = p[j] => i = j}
Permuted(d, p) == [d EXCEPT !.frags = [i \in 1..Len(d.frags) |-> d.frags[p[i]]]]

\* parse_pdf makes the same columns, and returns the same value, for every
\* order of the fragments of the document
SameForEveryOrder ==
    \A p \in Orders(Len(doc.frags)) :
        /\ pc = "discard" => build_columns(Permuted(doc, p)) = columns
        /\ pc = "done" => parse_pdf(Permuted(doc, p), now) = result

\* the fragments that pass the filter and share top and left are identical
OnePerPosition ==
    \A i, j \in 1..Len(doc.frags) :
        LET f == doc.frags[i]
            g == doc.frags[j]
        IN  (Passes(f) /\ Passes(g) /\ f.top = g.top /\ f.left = g.left) => f = g

\* C13 as stated: two inputs that are permutations of the same fragments give
\* the same columns and the same result.
C13_OrderIndependent ==
    (doc.valid /\ pc \in {"discard", "done"} /\ Len(doc.frags) <= MaxPermuted) =>
        SameForEveryOrder

\* C13 amended: two inputs that are permutations of the same fragments give
\* the same columns and the same result when the fragments that pass the
\* filter and share both top and left are identical.
C13_OrderIndependentPositions ==
    (doc.valid /\ pc \in {"discard", "done"} /\ Len(doc.frags) <= MaxPermuted
        /\ OnePerPosition) => SameForEveryOrder

\* C13 witness: a document whose fragments are not in (top, left) order, no two
\* at one position, was parsed into days.
C13_Witness ==
    /\ pc = "done"
    /\ result.ok
    /\ Len(doc.frags) = 3
    /\ OnePerPosition
    /\ \A i \in 1..3 : Passes(doc.frags[i])
    /\ doc.frags[3].top < doc.frags[1].top

\* the pieces of the text between the separators, all of them
RECURSIVE Tokens(_, _)
Tokens(text, sep) ==
    LET p == find_char_from(text, sep, 1) IN
    IF p = 0 THEN <<text>>
    ELSE <<SubSeq(text, 1, p - 1)>> \o Tokens(SubSeq(text, p + 1, Len(text)), sep)

\* the text is three integers year-month-day that denote a calendar date
DenotesDate(text) ==
    LET t == Tokens(text, "-") IN
    /\ Len(t) = 3
    /\ \A i \in 1..3 : AllDigits(t[i])
    /\ DigitsValue(t[2], 0) \in 1..12
    /\ DigitsValue(t[3], 0) >= 1
    /\ DigitsValue(t[3], 0) <=
          days_in_year_month(DigitsValue(t[1], 0), DigitsValue(t[2], 0))

DenotedDate(text) ==
    LET t == Tokens(text, "-") IN
    MkDate(DigitsValue(t[1], 0), DigitsValue(t[2], 0), DigitsValue(t[3], 0))

\* C14: a header without an alphabetic character resolves to the date of
\* exactly the year, month and day it gives as three integers separated by
\* '-', and fails to resolve whenever these do not denote a calendar date or
\* there are not exactly three integers.
C14_NumericDate ==
    (pc = "done" /\ Len(columns) = 1 /\ ~has_alphabetic(columns[1][1].text)) =>
        IF DenotesDate(columns[1][1].text)
        THEN result.ok /\ result.days[1].date = DenotedDate(columns[1][1].text)
        ELSE ~result.ok

\* the 7 French weekday names, and the 12 French month names with their
\* unaccented aliases
FrenchWeekdays ==
    {<<"l","u","n","d","i">>,
     <<"m","a","r","d","i">>,
     <<"m","e","r","c","r","e","d","i">>,
     <<"j","e","u","d","i">>,
     <<"v","e","n","d","r","e","d","i">>,
     <<"s","a","m","e","d","i">>,
     <<"d","i","m","a","n","c","h","e">>}
FrenchMonths ==
    {<<"j","a","n","v","i","e","r">>,
     <<"f","é","v","r","i","e","r">>,
     <<"f","e","v","r","i","e","r">>,
     <<"m","a","r","s">>,
     <<"a","v","r","i","l">>,
     <<"m","a","i">>,
     <<"j","u","i","n">>,
     <<"j","u","i","l","l","e","t">>,
     <<"a","o","û","t">>,
     <<"a","o","u","t">>,
     <<"s","e","p","t","e","m","b","r","e">>,
     <<"o","c","t","o","b","r","e">>,
     <<"n","o","v","e","m","b","r","e">>,
     <<"d","é","c","e","m","b","r","e">>,
     <<"d","e","c","e","m","b","r","e">>}

\* a number: decimal digits, after an optional '+'
IsNumber(tok) ==
    \/ AllDigits(tok)
    \/ tok # <<>> /\ Head(tok) = "+" /\ AllDigits(Tail(tok))

\* exactly three space-separated tokens: a weekday name, a number, a month
\* name, the names in any case
ThreeWordedTokens(text) ==
    LET t == Tokens(text, " ") IN
    /\ Len(t) = 3
    /\ to_lowercase(t[1]) \in FrenchWeekdays
    /\ IsNumber(t[2])
    /\ to_lowercase(t[3]) \in FrenchMonths

\* C15: a header with an alphabetic character that is not exactly three
\* space-separated tokens (a French weekday name, a day-of-month number, a
\* French month name or unaccented alias, in any case) fails resolution, and
\* the failure is an error of the parse, never a Day.
C15_WordedRejection ==
    (pc = "done" /\ columns # <<>>) =>
        \A c \in 1..Len(columns) :
            (has_alphabetic(columns[c][1].text) /\ ~ThreeWordedTokens(columns[c][1].text))
                => /\ ~result.ok
                   /\ result.days = <<>>
                   /\ Day_new(column_fields(columns[c]), now).tag = "Err"

\* C15 witness: the header "Lundi 13 mars 24", of four tokens, was rejected
\* at a time when 13 March is a Monday in one of the three years.
C15_Witness ==
    /\ pc = "done"
    /\ Len(columns) = 1
    /\ columns[1][1].text = <<"L","u","n","d","i"," ","1","3"," ","m","a","r","s"," ","2","4">>
    /\ now = MkDate(2024, 3, 10)
    /\ result = Err("InvalidPdf")

\* the text without its leading whitespace, and without its trailing spaces
LeadingWhitespace(text) ==
    Cardinality({i \in 1..Len(text) : \A j \in 1..i : text[j] \in {" ", "\t"}})
WithoutLeadingWhitespace(text) == SubSeq(text, LeadingWhitespace(text) + 1, Len(text))
TrailingSpaces(text) ==
    Cardinality({i \in 1..Len(text) : \A j \in i..Len(text) : text[j] = " "})
WithoutTrailingSpaces(text) == SubSeq(text, 1, Len(text) - TrailingSpaces(text))

\* C16 as stated: an absorbed fragment loses a single boundary space when the
\* run's text ends in whitespace; otherwise it loses its trailing spaces when
\* it ends in two or more of them, and keeps a single trailing space.
C16_SingleBoundarySpace ==
    [][(pc = "merge" /\ divs # <<>> /\ Absorbed) =>
        LET run  == Last(words).text
            text == Head(divs).text
        IN  Last(words').text =
                IF run # <<>> /\ Last(run) \in {" ", "\t"}
                THEN run \o (IF text # <<>> /\ Head(text) = " " THEN Tail(text) ELSE text)
                ELSE IF TrailingSpaces(text) >= 2
                     THEN run \o WithoutTrailingSpaces(text)
                     ELSE run \o text]_vars

\* C16 amended: an absorbed fragment loses all its leading whitespace when the
\* run's text ends in a space character; otherwise it loses all its trailing
\* spaces when it ends in two or more of them, and is appended unchanged, a
\* single trailing space included, when it does not.
C16_BoundaryWhitespace ==
    [][(pc = "merge" /\ divs # <<>> /\ Absorbed) =>
        LET run  == Last(words).text
            text == Head(divs).text
        IN  Last(words').text =
                IF run # <<>> /\ Last(run) = " "
                THEN run \o WithoutLeadingWhitespace(text)
                ELSE IF TrailingSpaces(text) >= 2
                     THEN run \o WithoutTrailingSpaces(text)
                     ELSE run \o text]_vars

\* C16 witness: "Sal " absorbed "  ade" and reads "Sal ade".
C16_Witness ==
    /\ pc = "lines"
    /\ doc.frags = <<Frag(130, 0, <<"S","a","l"," ">>), Frag(130, 12, <<" "," ","a","d","e">>)>>
    /\ Len(words) = 1
    /\ words[1].text = <<"S","a","l"," ","a","d","e">>

\* C16 witness for the other branch: "Sal" absorbed "ade  " without its two
\* spaces and then "ade " with its one.
C16_TrailingWitness ==
    /\ pc = "merge"
    /\ divs = <<>>
    /\ Len(doc.frags) = 3
    /\ doc.frags[2].text = <<"a","d","e"," "," ">>
    /\ doc.frags[3].text = <<"a","d","e"," ">>
    /\ Len(words) = 1
    /\ words[1].text = <<"S","a","l","a","d","e","a","d","e"," ">>

(***************************************************************************)
(* The catalogue: weeks parsed and inserted one after the other            *)
(***************************************************************************)
MaxCatCols == 2

T_Date13b == <<"2","0","2","4","-","3","-","1","3">>

\* grids of up to MaxCatCols columns whose headers name two dates in three
\* ways, with one item each or none; the ragged ones lack the last item of
\* the last column
CatHeaders == {T_Date13, T_Date13b, T_Mardi12}
CatGrids ==
    {GridFrags(hs, r, FALSE) : hs \in SeqsUpTo(CatHeaders, MaxCatCols), r \in 0..1}
CatDocs ==
    {PageDoc(g) : g \in CatGrids}
    \cup {PageDoc(SubSeq(g, 1, Len(g) - 1)) : g \in CatGrids \ {<<>>}}
    \cup {UnreadableDoc}

\* each document with what parse_pdf makes of it
CatParses ==
    {[doc |-> d,
      columns |-> IF d.valid THEN build_columns(d) ELSE <<>>,
      result |-> parse_pdf(d, Now0)] : d \in CatDocs}

JsonRows == {<<>>, <<T_Date13>>, <<T_Date13, T_Riz>>, <<T_Menu, T_Riz>>, <<T_Mardi12, T_Eau, T_Sel>>}
JsonInputs ==
    {[valid |-> TRUE, rows |-> rows] : rows \in SeqsUpTo(JsonRows, 2)}
    \cup {[valid |-> FALSE, rows |-> <<>>]}

InitCat ==
    /\ doc = PageDoc(<<>>)
    /\ now = Now0
    /\ pc = "idle"
    /\ divs = <<>>
    /\ words = <<>>
    /\ columns = <<>>
    /\ result = Pending
    /\ catalogue = <<>>
    /\ updates = NoUpdate
    /\ json = NoJson
    /\ lock = NoLock
    /\ reqs = NoReqs

\* main.rs 48-50, 133-134, 140-141: a document parses and its days are inserted
InsertWeek ==
    \E p \in CatParses :
        /\ p.result.ok
        /\ doc' = p.doc
        /\ columns' = p.columns
        /\ result' = p.result
        /\ catalogue' = Catalogue_insert(catalogue, p.result.days).days
        /\ updates' = Catalogue_insert(catalogue, p.result.days).updates
        /\ json' = NoJson
        /\ UNCHANGED <<now, pc, divs, words>>
        /\ UNCHANGED <<lock, reqs>>

\* main.rs 48-49, 133, 140: a document does not parse and nothing is inserted
RejectWeek ==
    \E p \in CatParses :
        /\ ~p.result.ok
        /\ doc' = p.doc
        /\ columns' = p.columns
        /\ result' = p.result
        /\ json' = NoJson
        /\ UNCHANGED <<now, pc, divs, words, catalogue, updates>>
        /\ UNCHANGED <<lock, reqs>>

\* week.rs 34-39: parse_json is called on rows of fields
ParseJson ==
    \E j \in JsonInputs :
        /\ json' = j
        /\ result' = parse_json(j, now)
        /\ doc' = PageDoc(<<>>)
        /\ columns' = <<>>
        /\ UNCHANGED <<now, pc, divs, words, catalogue, updates>>
        /\ UNCHANGED <<lock, reqs>>

NextCat ==
    \/ InsertWeek
    \/ RejectWeek
    \/ ParseJson

SpecCat == InitCat /\ [][NextCat]_vars

\* C3: every Day returned by parse_pdf or parse_json, and every Day stored in
\* the catalogue after any sequence of inserts and replacements, has at least
\* one item; a column with fewer than 2 runs, and a row with fewer than 2
\* fields, yields no Day.
C3_DaysHaveItems ==
    /\ \A i \in 1..Len(result.days) : Len(result.days[i].dishes) >= 1
    /\ \A i \in 1..Len(catalogue) : Len(catalogue[i].dishes) >= 1
    /\ (result.ok /\ json = NoJson) =>
        Len(result.days) = Cardinality({c \in 1..Len(columns) : Len(columns[c]) >= 2})
    /\ (result.ok /\ json # NoJson) =>
        Len(result.days) = Cardinality({r \in 1..Len(json.rows) : Len(json.rows[r]) >= 2})

\* C3 witness: the last document had a column of a header alone beside a full
\* column, and its one Day replaced the dishes of a stored day.
C3_Witness ==
    /\ result.ok
    /\ json = NoJson
    /\ \E c \in 1..Len(columns) : Len(columns[c]) = 1
    /\ Len(result.days) = 1
    /\ updates.replaced # <<>>
    /\ \E i \in 1..Len(catalogue) : catalogue[i].dishes = result.days[1].dishes

\* C3 witness for parse_json: a row of a date alone gave no Day, the row next
\* to it gave one.
C3_JsonWitness ==
    /\ result.ok
    /\ Len(json.rows) = 2
    /\ Len(json.rows[1]) = 1
    /\ Len(result.days) = 1

(***************************************************************************)
(* The server: the start-up loop of main, then uploads and reads that      *)
(* share the catalogue behind its RwLock                                   *)
(***************************************************************************)
\* the weeks given on the command line and uploaded: the 12th and the 13th
\* of March, the 13th twice, the 13th alone, the 11th, and a page whose
\* header is no date
ServerHeaders ==
    {<<T_Mardi12, T_Date13b>>, <<T_Date13, T_Date13b>>, <<T_Date13>>,
     <<T_Lundi11>>, <<T_Menu>>}
ServerDocs == {PageDoc(GridFrags(hs, 1, FALSE)) : hs \in ServerHeaders}

\* each week with what parse_pdf makes of it
ServerParse == [d \in ServerDocs |-> parse_pdf(d, Now0)]

\* the write guard handed out whoever holds a guard
write_free_always(l) == TRUE

\* RwLock::write().await returns: nobody holds a guard
write_free(l) == l.writers = {} /\ l.readers = {}

\* RwLock::read().await returns: nobody holds the write guard
read_free(l) == l.writers = {}

\* the guard of task r is dropped
release(l, r) == [writers |-> l.writers \ {r}, readers |-> l.readers \ {r}]

is_upload(req) == req.kind \in {"multipart", "body"}

\* task r touched the catalogue: the uploads that are between two of their
\* inserts take note of it
touched(rs, r) ==
    [q \in Reqs |->
        IF q # r /\ is_upload(rs[q]) /\ rs[q].pc = "running" /\ rs[q].nparts >= 1
        THEN [rs[q] EXCEPT !.others = @ \cup {r}]
        ELSE rs[q]]

\* the task is over: its locals are dropped, its outcome stays
finished(req, outcome) == [IdleReq EXCEPT !.pc = "done", !.outcome = outcome]

InitServer ==
    /\ doc = PageDoc(<<>>)
    /\ now = Now0
    /\ pc = "startup"
    /\ divs = <<>>
    /\ words = <<>>
    /\ columns = <<>>
    /\ result = Pending
    /\ catalogue = <<>>
    /\ updates = NoUpdate
    /\ json = NoJson
    /\ lock = NoLock
    /\ reqs = [NoReqs EXCEPT ![0] = [IdleReq EXCEPT !.kind = "main", !.pc = "running"]]

\* main.rs 47-50: a week of the command line parses and is inserted
StartupInsert ==
    /\ pc = "startup"
    /\ reqs[0].nparts < MaxStartupDocs
    /\ \E d \in ServerDocs :
        LET week == ServerParse[d]
            ins  == Catalogue_insert(catalogue, week.days)
        IN  /\ week.ok
            /\ result' = week
            /\ catalogue' = ins.days
            /\ updates' = ins.updates
            /\ reqs' = [reqs EXCEPT ![0].nparts = @ + 1,
                                    ![0].acc = add_assign_update(@, ins.updates)]
    /\ UNCHANGED <<doc, now, pc, divs, words, columns, json, lock>>

\* main.rs 48-49: a week of the command line does not parse and main returns
StartupFail ==
    /\ pc = "startup"
    /\ reqs[0].nparts < MaxStartupDocs
    /\ \E d \in ServerDocs :
        /\ ~ServerParse[d].ok
        /\ result' = ServerParse[d]
    /\ pc' = "exited"
    /\ reqs' = [reqs EXCEPT ![0] = finished(@, "err")]
    /\ UNCHANGED <<doc, now, divs, words, columns, catalogue, updates, json, lock>>

\* main.rs 52-88: the catalogue goes behind its lock and the server starts
Serve ==
    /\ pc = "startup"
    /\ pc' = "serving"
    /\ reqs' = [reqs EXCEPT ![0] = finished(@, "ok")]
    /\ UNCHANGED <<doc, now, divs, words, columns, result, catalogue, updates, json, lock>>

\* main.rs 59-67: a request reaches upload_handler, with a multipart body or
\* a plain one, or a handler that reads the catalogue; the requests are
\* numbered in the order they arrive
Arrive(r) ==
    /\ pc = "serving"
    /\ r # 0
    /\ reqs[r].pc = "idle"
    /\ \A q \in 1..(r - 1) : reqs[q].pc # "idle"
    /\ \E k \in {"multipart", "body", "read"} :
        reqs' = [reqs EXCEPT ![r].kind = k, ![r].pc = "wait"]
    /\ UNCHANGED <<doc, now, pc, divs, words, columns, result, catalogue, updates, json, lock>>

\* main.rs 116-117: process takes the write guard
AcquireWrite(r) ==
    /\ reqs[r].pc = "wait"
    /\ is_upload(reqs[r])
    /\ write_free(lock)
    /\ lock' = [lock EXCEPT !.writers = @ \cup {r}]
    /\ reqs' = [reqs EXCEPT ![r].pc = "running", ![r].before = catalogue]
    /\ UNCHANGED <<doc, now, pc, divs, words, columns, result, catalogue, updates, json>>

\* the upload has a part left to read: a field of the multipart body, or the
\* plain body
has_part(req) ==
    \/ req.kind = "multipart" /\ req.nparts < MaxParts
    \/ req.kind = "body" /\ req.nparts = 0

\* main.rs 132-134, 137-141: a part parses and its days are inserted
UploadPart(r) ==
    /\ reqs[r].pc = "running"
    /\ is_upload(reqs[r])
    /\ has_part(reqs[r])
    /\ \E d \in ServerDocs :
        LET days == ServerParse[d]
            ins  == Catalogue_insert(catalogue, days.days)
        IN  /\ days.ok
            /\ result' = days
            /\ catalogue' = ins.days
            /\ updates' = ins.updates
            /\ reqs' = touched([reqs EXCEPT ![r].nparts = @ + 1,
                                            ![r].acc = add_assign_update(@, ins.updates),
                                            ![r].others = {}], r)
    /\ UNCHANGED <<doc, now, pc, divs, words, columns, json, lock>>

\* main.rs 133, 140: a part does not parse and process returns the error
UploadInvalidPdf(r) ==
    /\ reqs[r].pc = "running"
    /\ is_upload(reqs[r])
    /\ has_part(reqs[r])
    /\ \E d \in ServerDocs :
        /\ ~ServerParse[d].ok
        /\ result' = ServerParse[d]
    /\ reqs' = [reqs EXCEPT ![r] = finished(@, "err")]
    /\ lock' = release(lock, r)
    /\ UNCHANGED <<doc, now, pc, divs, words, columns, catalogue, updates, json>>

\* main.rs 124-132, 137-139: the body cannot be read and process returns
\* Error::InvalidBody
UploadInvalidBody(r) ==
    /\ reqs[r].pc = "running"
    /\ is_upload(reqs[r])
    /\ has_part(reqs[r])
    /\ reqs' = [reqs EXCEPT ![r] = finished(@, "err")]
    /\ lock' = release(lock, r)
    /\ UNCHANGED <<doc, now, pc, divs, words, columns, result, catalogue, updates, json>>

\* main.rs 127-131, 143: no field is left and process returns Ok(updates)
UploadEnd(r) ==
    /\ reqs[r].pc = "running"
    /\ is_upload(reqs[r])
    /\ reqs[r].kind = "multipart" \/ reqs[r].nparts = 1
    /\ reqs' = [reqs EXCEPT ![r] = finished(@, "ok")]
    /\ lock' = release(lock, r)
    /\ UNCHANGED <<doc, now, pc, divs, words, columns, result, catalogue, updates, json>>

\* main.rs 101, 103, 158, 168, 186, 199, 217, 231: a handler takes a read guard
AcquireRead(r) ==
    /\ reqs[r].pc = "wait"
    /\ reqs[r].kind = "read"
    /\ read_free(lock)
    /\ lock' = [lock EXCEPT !.readers = @ \cup {r}]
    /\ reqs' = [reqs EXCEPT ![r].pc = "running"]
    /\ UNCHANGED <<doc, now, pc, divs, words, columns, result, catalogue, updates, json>>

\* main.rs 101-103: the handler reads the catalogue and drops its guard
ReadCatalogue(r) ==
    /\ reqs[r].pc = "running"
    /\ reqs[r].kind = "read"
    /\ reqs' = touched([reqs EXCEPT ![r] = finished(@, "ok")], r)
    /\ lock' = release(lock, r)
    /\ UNCHANGED <<doc, now, pc, divs, words, columns, result, catalogue, updates, json>>

NextServer ==
    \/ StartupInsert
    \/ StartupFail
    \/ Serve
    \/ \E r \in Reqs : Arrive(r)
    \/ \E r \in Reqs : AcquireWrite(r)
    \/ \E r \in Reqs : UploadPart(r)
    \/ \E r \in Reqs : UploadInvalidPdf(r)
    \/ \E r \in Reqs : UploadInvalidBody(r)
    \/ \E r \in Reqs : UploadEnd(r)
    \/ \E r \in Reqs : AcquireRead(r)
    \/ \E r \in Reqs : ReadCatalogue(r)

SpecServer == InitServer /\ [][NextServer]_vars

\* request r inserts a part, having inserted one before
InsertsAgain(r) ==
    /\ is_upload(reqs[r])
    /\ reqs[r].nparts >= 1
    /\ reqs'[r].nparts = reqs[r].nparts + 1

\* C17: catalogue insertion by the upload handler is serialized. Between two
\* inserts of one upload request no other upload request inserts and no read
\* request observes the catalogue, whatever the interleaving of the requests.
C17_UploadsSerialized ==
    [][\A r \in Reqs : InsertsAgain(r) => reqs[r].others = {}]_vars

\* C17 witness: an upload has inserted two parts under its write guard while
\* another upload, arrived meanwhile, waits for the guard.
C17_Witness ==
    \E r, q \in Reqs :
        /\ r # q
        /\ lock.writers = {r}
        /\ reqs[r].pc = "running"
        /\ reqs[r].nparts = 2
        /\ is_upload(reqs[q])
        /\ reqs[q].pc = "wait"

\* C17 witness for reads: an upload has inserted two parts while a read
\* request waits for its guard.
C17_ReadWitness ==
    \E r, q \in Reqs :
        /\ lock.writers = {r}
        /\ reqs[r].nparts = 2
        /\ reqs[q].kind = "read"
        /\ reqs[q].pc = "wait"

(***************************************************************************)
(* Catalogue::insert seen from the server                                  *)
(***************************************************************************)
DatesOf(days) == {days[i].date : i \in 1..Len(days)}

StrictlyAscending(days) ==
    \A i \in 1..(Len(days) - 1) : date_lt(days[i].date, days[i + 1].date)

Ascending(dates) ==
    \A i \in 1..(Len(dates) - 1) : ~date_lt(dates[i + 1], dates[i])

\* the step is a call of Catalogue::insert: by main at start-up or by an
\* upload; its argument is result'.days and what it returns is updates'
InsertStep == \E r \in Reqs : reqs'[r].nparts = reqs[r].nparts + 1

\* the day stored under the date
StoredDay(days, date) == CHOOSE d \in Range(days) : d.date = date

\* the last day of the argument that carries the date
LastGiven(given, date) ==
    given[CHOOSE i \in 1..Len(given) :
            /\ given[i].date = date
            /\ \A j \in (i + 1)..Len(given) : given[j].date # date]

\* the days of the argument that meet their date already stored, counting
\* the days stored by the same call
MeetsStored(stored, given, date) ==
    {i \in 1..Len(given) :
        /\ given[i].date = date
        /\ \/ date \in DatesOf(stored)
           \/ \E j \in 1..(i - 1) : given[j].date = date}

\* C18: whatever was inserted, the stored days are in strictly ascending
\* date order; a call of insert stores the dates it is given next to the
\* ones it had, leaves the days of the other dates alone, gives a date it
\* had (or has just stored) the dishes of the day given, and reports the
\* dates it did not have in `inserted` and the others in `replaced`
C18_InsertSortedReplaceOrAdd ==
    [][/\ StrictlyAscending(catalogue')
       /\ InsertStep =>
            LET given == result'.days IN
            /\ DatesOf(catalogue') = DatesOf(catalogue) \cup DatesOf(given)
            /\ Len(catalogue') = Cardinality(DatesOf(catalogue'))
            /\ \A d \in Range(catalogue') :
                IF d.date \in DatesOf(given)
                THEN d.dishes = LastGiven(given, d.date).dishes
                ELSE d = StoredDay(catalogue, d.date)
            /\ Range(updates'.inserted) = DatesOf(given) \ DatesOf(catalogue)
            /\ Len(updates'.inserted) = Cardinality(Range(updates'.inserted))
            /\ \A date \in DatesOf(given) \cup Range(updates'.replaced) :
                Occurrences(updates'.replaced, date)
                    = Cardinality(MeetsStored(catalogue, given, date))
            /\ Ascending(updates'.inserted)
            /\ Ascending(updates'.replaced)]_vars

\* an upload has stored a day before the days stored earlier and, in the
\* same call, given a stored date new dishes
C18_Witness ==
    /\ \E r \in Reqs : is_upload(reqs[r]) /\ reqs[r].pc = "running" /\ reqs[r].nparts >= 1
    /\ Len(catalogue) >= 2
    /\ updates.inserted # <<>>
    /\ updates.replaced # <<>>
    /\ date_lt(updates.inserted[1], updates.replaced[1])
    /\ catalogue[1].date = updates.inserted[1]
    /\ \E r \in Reqs :
        \E d \in Range(reqs[r].before) :
            /\ d.date = updates.replaced[1]
            /\ d.dishes # StoredDay(catalogue, d.date).dishes

\* an upload has stored the 11th before the days of a week stored earlier
C18_FrontWitness ==
    /\ \E r \in Reqs : is_upload(reqs[r]) /\ reqs[r].pc = "running" /\ reqs[r].nparts >= 1
    /\ Len(catalogue) >= 2
    /\ updates.inserted = <<catalogue[1].date>>
    /\ updates.replaced = <<>>
    /\ Len(result.days) = 1

\* C19, as stated: an upload that ends with an error leaves the catalogue
\* as it was when the upload took the write guard
C19_FailedUploadLeavesCatalogue ==
    [][\A r \in Reqs :
        (/\ is_upload(reqs[r])
         /\ reqs[r].pc = "running"
         /\ reqs'[r].outcome = "err")
        => catalogue' = reqs[r].before]_vars

\* the task accumulates the updates of its inserts: main at start-up, an
\* upload under its write guard
Accumulates(r) ==
    /\ reqs[r].pc = "running"
    /\ reqs[r].kind = "main" \/ is_upload(reqs[r])

\* C20: in the update a task has accumulated, no date is both inserted and
\* replaced, and the inserted dates are the dates stored now that were not
\* stored when the task began
C20_AccumulatedUpdate ==
    \A r \in Reqs :
        Accumulates(r) =>
            /\ Range(reqs[r].acc.inserted) \cap Range(reqs[r].acc.replaced) = {}
            /\ Range(reqs[r].acc.inserted) = DatesOf(catalogue) \ DatesOf(reqs[r].before)
            /\ Len(reqs[r].acc.inserted) = Cardinality(Range(reqs[r].acc.inserted))

\* an upload stored a date with one part and gave it new dishes with the
\* next: the last insert reports the date as replaced, the accumulated
\* update as inserted
C20_Witness ==
    \E r \in Reqs :
        /\ is_upload(reqs[r])
        /\ reqs[r].pc = "running"
        /\ reqs[r].nparts = 2
        /\ \E date \in Range(updates.replaced) :
            /\ date \in Range(reqs[r].acc.inserted)
            /\ date \notin Range(updates.inserted)

\* a week of the command line carries a date twice: insert reports it as
\* inserted and as replaced, the accumulated update as inserted only
C20_StartupWitness ==
    /\ pc = "startup"
    /\ reqs[0].nparts = 1
    /\ Range(updates.inserted) \cap Range(updates.replaced) # {}

(***************************************************************************)
(* The server: the routes that list the weeks and show one week            *)
(***************************************************************************)
T_Jan1_2021 == <<"2","0","2","1","-","0","1","-","0","1">>
T_Jan2_2024 == <<"2","0","2","4","-","0","1","-","0","2">>
T_Dec30_2024 == <<"2","0","2","4","-","1","2","-","3","0">>

\* the weeks given on the command line: two days of one week of March, a
\* Friday that belongs to week 53 of the year before, a Monday that belongs
\* to week 1 of the year after, alone and after a day of week 1 of its own
\* year
WeekHeaders ==
    {<<T_Mardi12, T_Date13b>>, <<T_Jan1_2021>>, <<T_Dec30_2024>>,
     <<T_Jan2_2024, T_Dec30_2024>>}
WeekDocs == {PageDoc(GridFrags(hs, 1, FALSE)) : hs \in WeekHeaders}
WeekParse == [d \in WeekDocs |-> parse_pdf(d, Now0)]

\* the paths asked of /weeks/:week: a year and a week, or no such pair
WeekPaths ==
    {[valid |-> TRUE, year |-> y, week |-> w] : y \in {2021, 2024, 2025}, w \in {1, 53}}
        \cup {[valid |-> FALSE, year |-> 0, week |-> 0]}

\* main.rs 47-50: a week of the command line parses and is inserted
StartupInsertWeek ==
    /\ pc = "startup"
    /\ reqs[0].nparts < MaxStartupDocs
    /\ \E d \in WeekDocs :
        LET week == WeekParse[d]
            ins  == Catalogue_insert(catalogue, week.days)
        IN  /\ week.ok
            /\ result' = week
            /\ catalogue' = ins.days
            /\ updates' = ins.updates
            /\ reqs' = [reqs EXCEPT ![0].nparts = @ + 1,
                                    ![0].acc = add_assign_update(@, ins.updates)]
    /\ UNCHANGED <<doc, now, pc, divs, words, columns, json, lock>>

\* the next request to arrive is r
arrives(r) ==
    /\ pc = "serving"
    /\ r # 0
    /\ reqs[r].pc = "idle"
    /\ \A q \in 1..(r - 1) : reqs[q].pc # "idle"

\* main.rs 94-106: index_handler asked for HTML takes a read guard, lists
\* the weeks and drops the guard; a panic of WeeksList::from ends the task
IndexHtml(r) ==
    /\ arrives(r)
    /\ read_free(lock)
    /\ LET w == WeeksList_from(catalogue) IN
        reqs' = [reqs EXCEPT ![r] =
                    [IdleReq EXCEPT !.kind = "weeks", !.pc = "done",
                                    !.outcome = IF w.ok THEN "ok" ELSE "panic",
                                    !.weeks = w.weeks]]
    /\ UNCHANGED <<doc, now, pc, divs, words, columns, result, catalogue, updates, json, lock>>

\* main.rs 192-206: week_handler splits and parses the path, takes a read
\* guard and answers with Catalogue::week
WeekHandler(r) ==
    /\ arrives(r)
    /\ \E p \in WeekPaths :
        IF ~p.valid
        THEN reqs' = [reqs EXCEPT ![r] =
                        [IdleReq EXCEPT !.kind = "week", !.pc = "done",
                                        !.outcome = "invalid"]]
        ELSE /\ read_free(lock)
             /\ LET w == Catalogue_week(catalogue, p.year, p.week) IN
                 reqs' = [reqs EXCEPT ![r] =
                            [IdleReq EXCEPT !.kind = "week", !.pc = "done",
                                            !.outcome = IF w.ok THEN "ok" ELSE "err",
                                            !.year = p.year, !.week = p.week,
                                            !.days = w.days]]
    /\ UNCHANGED <<doc, now, pc, divs, words, columns, result, catalogue, updates, json, lock>>

NextWeeks ==
    \/ StartupInsertWeek
    \/ Serve
    \/ \E r \in Reqs : IndexHtml(r)
    \/ \E r \in Reqs : WeekHandler(r)

SpecWeeks == InitServer /\ [][NextWeeks]_vars

\* the Monday of the ISO week that contains the date
IsoMonday(date) == DateOfDayNumber(DayNumber(date) - (number_from_monday(date) - 1))

\* the stored days of an ISO week, given by its ISO year and its number
DaysOfIsoWeek(stored, year, week) ==
    SelectSeq(stored, LAMBDA d : iso_year_week(d.date) = [year |-> year, week |-> week])

\* C21, as stated: listing the weeks never panics and gives, once each, the
\* Mondays of the ISO weeks of the stored days; asking for a week gives
\* exactly the stored days of that ISO week
C21_WeeksAreIsoWeeks ==
    \A r \in Reqs :
        /\ (reqs[r].kind = "weeks" /\ reqs[r].pc = "done") =>
            /\ reqs[r].outcome # "panic"
            /\ Range(reqs[r].weeks) = {IsoMonday(d.date) : d \in Range(catalogue)}
            /\ Len(reqs[r].weeks) = Cardinality(Range(reqs[r].weeks))
        /\ (reqs[r].kind = "week" /\ reqs[r].pc = "done" /\ reqs[r].outcome # "invalid") =>
            reqs[r].days = DaysOfIsoWeek(catalogue, reqs[r].year, reqs[r].week)

(***************************************************************************)
(* parse_pdf on fragments whose left is close to the largest u32           *)
(***************************************************************************)
\* u32::MAX, 2^32 - 1, as it is held here
U32_MAX == -1

\* fragments far to the right: one whose end passes u32::MAX on a line of
\* its own, one on the line of the first item, and three that follow each
\* other on one line, the last of them passing u32::MAX
WideFrags ==
    <<Frag(ItemTops[1], U32_MAX - 7, T_Sel),
      Frag(ItemTops[2], U32_MAX - 39, T_Pain),
      Frag(ItemTops[2], U32_MAX - 29, T_Sel),
      Frag(ItemTops[2], U32_MAX - 9, T_Riz),
      Frag(ItemTops[3], U32_MAX, T_Sel)>>

\* the fragments of s at the indices of S, in the order of s
RECURSIVE Chosen(_, _)
Chosen(s, S) ==
    IF s = <<>> THEN <<>>
    ELSE LET rest == Chosen(SubSeq(s, 1, Len(s) - 1), S) IN
         IF Len(s) \in S THEN Append(rest, s[Len(s)]) ELSE rest

\* a column that parses, with some of the fragments far to the right
WideDocs ==
    {PageDoc(<<Frag(HeaderTop, 0, T_Date13), Frag(ItemTops[1], 0, T_Riz)>>
                \o Chosen(WideFrags, S)) : S \in SUBSET (1..Len(WideFrags))}

InitWide ==
    /\ doc \in WideDocs
    /\ now = Now0
    /\ pc = "load"
    /\ divs = <<>>
    /\ words = <<>>
    /\ columns = <<>>
    /\ result = Pending
    /\ catalogue = <<>>
    /\ updates = NoUpdate
    /\ json = NoJson
    /\ lock = NoLock
    /\ reqs = NoReqs

SpecWide == InitWide /\ [][Next]_vars

\* the runs at hand: the words not yet placed and the members of the columns
Runs == Range(words) \cup UNION {Range(columns[i]) : i \in 1..Len(columns)}

\* the word about to be placed goes to an existing column
JoinsColumn == pc = "columns" /\ words # <<>> /\ find_column(columns, Head(words)) # 0

\* C22, as stated: every run has start <= end as unsigned numbers, after
\* each merge of a fragment and of a line, so the subtraction of center()
\* does not underflow; and a run that joins a column is not above the last
\* run of that column, so the subtraction of the tops does not either
C22_NoUnsignedUnderflow ==
    [][/\ \A w \in Runs' : u32_le(w.start, w.end)
       /\ JoinsColumn =>
            LET column == columns[find_column(columns, Head(words))]
            IN  Head(words).top >= column[Len(column)].top]_vars

====
